---- MODULE Spec2Model ----
(***************************************************************************)
(* A model of rookdaemon/scp (Soul Copy Protocol): the minimal tar codec,  *)
(* the checksum service, the .soul archive codec, the STP server and the   *)
(* command line around them.                                               *)
(*                                                                         *)
(* Buffers and strings are sequences of byte values (ASCII codes), so the  *)
(* fixed-size header fields of tar.ts are modelled byte for byte.          *)
(***************************************************************************)
EXTENDS Integers, Sequences, FiniteSets, TLC

(***************************************************************************)
(* Bounds of the model.                                                    *)
(***************************************************************************)
MaxTarEntries == 2      \* entries handed to pack in the tar-only specification
MaxSumFiles == 3        \* entries handed to soulChecksum in the checksum-only specification
MaxFileLen == 1         \* bytes in a workspace file
MaxReqs == 1            \* requests the server handles, concurrently
MaxInclude == 2         \* entries in the include list of a SOUL_MANIFEST.json
MaxCalls == 2           \* calls the client makes, one after the other
WriteChunks == 2        \* writes the gzip stream makes into the output file

(***************************************************************************)
(* String literals of the sources, as byte sequences.                      *)
(***************************************************************************)
S_manifest_json == <<109, 97, 110, 105, 102, 101, 115, 116, 46, 106, 115, 111, 110>>
S_a_md == <<97, 46, 109, 100>>
S_NUL == <<0>>
S_SOUL_md == <<83, 79, 85, 76, 46, 109, 100>>
S_MEMORY_md == <<77, 69, 77, 79, 82, 89, 46, 109, 100>>
S_memory == <<109, 101, 109, 111, 114, 121>>
S_memory_day_md == <<109, 101, 109, 111, 114, 121, 47, 100, 97, 121, 46, 109, 100>>
S_memory_git == <<109, 101, 109, 111, 114, 121, 47, 46, 103, 105, 116>>
S_notes_txt == <<110, 111, 116, 101, 115, 46, 116, 120, 116>>
S_Bearer == <<66, 101, 97, 114, 101, 114>>
S_health == <<47, 104, 101, 97, 108, 116, 104>>
S_soul == <<47, 115, 111, 117, 108>>
S_soul_manifest == <<47, 115, 111, 117, 108, 47, 109, 97, 110, 105, 102, 101, 115, 116>>
SLASH == <<47>>
SPACE == <<32>>

Min(a, b) == IF a < b THEN a ELSE b
Max(a, b) == IF a > b THEN a ELSE b
Fill(n, b) == [i \in 1..n |-> b]
Zeros(n) == Fill(n, 0)

\* "memory/aaa...a", n bytes long: a path inside the memory/ directory.
PathOfLen(n) ==
  LET prefix == <<109, 101, 109, 111, 114, 121, 47>>  \* 'memory/'
  IN prefix \o Fill(n - Len(prefix), 97)

(***************************************************************************)
(* tar.ts -- minimal tar pack/extract.                                     *)
(***************************************************************************)
BLOCK == 512
NAME_LEN == 100
MODE_0644 == 420

\* Number.prototype.toString(8) of a non-negative integer.
RECURSIVE ToOctal(_)
ToOctal(n) == IF n < 8 THEN <<48 + n>> ELSE ToOctal(n \div 8) \o <<48 + (n % 8)>>

\* String.prototype.padStart: pads on the left, never truncates.
padStart(s, k, c) == IF Len(s) >= k THEN s ELSE Fill(k - Len(s), c) \o s

padOctal(n, len) == padStart(ToOctal(n), len - 1, 48) \o S_NUL

\* String.prototype.slice(0, k).
StrSlice0(s, k) == SubSeq(s, 1, Min(Len(s), k))

\* Buffer.write(str, offset, length): at most `length` bytes of str, at offset.
BufWrite(buf, str, offset, length) ==
  LET n == Min(Min(Len(str), length), Len(buf) - offset)
  IN SubSeq(buf, 1, offset) \o SubSeq(str, 1, n) \o SubSeq(buf, offset + n + 1, Len(buf))

\* The loop of headerChecksum over i = lo .. hi-1, summed by halves.
RECURSIVE SumRange(_, _, _)
SumRange(header, lo, hi) ==
  IF lo >= hi THEN 0
  ELSE IF hi = lo + 1
       THEN (IF lo >= 148 /\ lo < 156 THEN 32 ELSE header[lo + 1])
       ELSE LET mid == (lo + hi) \div 2
            IN SumRange(header, lo, mid) + SumRange(header, mid, hi)

\* A headerChecksum that counts the checksum field as it finds it.
headerChecksumAsFound(header) ==
  SumRange(header, 0, 148) + SumRange(SubSeq(header, 149, 156), 0, 8)
    + SumRange(header, 156, BLOCK)

headerChecksum(header) == SumRange(header, 0, BLOCK)

\* The header block pack writes for one entry; now = Math.floor(Date.now() / 1000).
PackHeader(entry, now) ==
  LET h0 == Zeros(BLOCK)
      h1 == BufWrite(h0, StrSlice0(entry.name, NAME_LEN), 0, NAME_LEN)
      h2 == BufWrite(h1, padOctal(MODE_0644, 8), 100, 8)
      h3 == BufWrite(h2, padOctal(0, 8), 108, 8)
      h4 == BufWrite(h3, padOctal(0, 8), 116, 8)
      h5 == BufWrite(h4, padOctal(Len(entry.data), 12), 124, 12)
      h6 == BufWrite(h5, padOctal(now, 12), 136, 12)
      h7 == BufWrite(h6, <<48>>, 156, 1)
      h8 == BufWrite(h7, <<117, 115, 116, 97, 114, 0>>, 257, 6)  \* 'ustar\0'
      h9 == BufWrite(h8, <<48, 48>>, 263, 2)  \* '00'
      h10 == BufWrite(h9, padOctal(headerChecksum(h9), 7), 148, 7)
  IN BufWrite(h10, <<32>>, 155, 1)

\* A pack that does not pad the data to the block boundary.
PackEntryNoPadding(entry, now) == PackHeader(entry, now) \o entry.data

\* Header, data and padding of one entry.
PackEntry(entry, now) ==
  LET remainder == Len(entry.data) % BLOCK
  IN PackHeader(entry, now) \o entry.data
       \o (IF remainder > 0 THEN Zeros(BLOCK - remainder) ELSE <<>>)

RECURSIVE PackFrom(_, _, _)
PackFrom(entries, i, now) ==
  IF i > Len(entries) THEN <<>>
  ELSE PackEntry(entries[i], now) \o PackFrom(entries, i + 1, now)

pack(entries, now) == PackFrom(entries, 1, now) \o Zeros(BLOCK * 2)

\* Buffer.subarray(start, end): negative indices count from the end, both are
\* clamped to the buffer, an empty range yields an empty buffer.
Subarray(buf, start, end) ==
  LET n == Len(buf)
      s == IF start < 0 THEN Max(n + start, 0) ELSE Min(start, n)
      e == IF end < 0 THEN Max(n + end, 0) ELSE Min(end, n)
  IN IF e <= s THEN <<>> ELSE SubSeq(buf, s + 1, e)

\* replace(/\0+$/, ''): the string without its trailing NUL characters.
RECURSIVE StripTrailingNul(_)
StripTrailingNul(s) ==
  IF Len(s) > 0 /\ s[Len(s)] = 0 THEN StripTrailingNul(SubSeq(s, 1, Len(s) - 1)) ELSE s

IsSpace(c) == c \in {9, 10, 11, 12, 13, 32}

\* String.prototype.trim.
RECURSIVE TrimLeft(_)
TrimLeft(s) == IF Len(s) > 0 /\ IsSpace(s[1]) THEN TrimLeft(SubSeq(s, 2, Len(s))) ELSE s
RECURSIVE TrimRight(_)
TrimRight(s) ==
  IF Len(s) > 0 /\ IsSpace(s[Len(s)]) THEN TrimRight(SubSeq(s, 1, Len(s) - 1)) ELSE s
Trim(s) == TrimLeft(TrimRight(s))

IsOctalDigit(c) == c >= 48 /\ c <= 55

\* The value of the longest prefix of octal digits of s from position i on;
\* [nan |-> TRUE] when there is no digit.
RECURSIVE OctalPrefix(_, _, _, _)
OctalPrefix(s, i, acc, seen) ==
  IF i <= Len(s) /\ IsOctalDigit(s[i])
  THEN OctalPrefix(s, i + 1, acc * 8 + (s[i] - 48), TRUE)
  ELSE [nan |-> ~seen, value |-> acc]

\* parseInt(str, 8): optional sign, then octal digits; NaN without a digit.
parseInt8(str) ==
  LET s == TrimLeft(str)
      neg == Len(s) > 0 /\ s[1] = 45
      signed == Len(s) > 0 /\ s[1] \in {43, 45}
      r == OctalPrefix(s, IF signed THEN 2 ELSE 1, 0, FALSE)
  IN [nan |-> r.nan, value |-> IF neg THEN 0 - r.value ELSE r.value]

IsZeroBlock(header) == \A i \in 1..Len(header) : header[i] = 0

\* JavaScript's remainder: the sign of the result is the sign of the dividend.
JsRem(a, b) == IF a >= 0 THEN a % b ELSE 0 - ((0 - a) % b)

\* The while loop of extract, from `offset` on; fuel bounds the iterations
\* (a run that uses it up is reported as not halted).
RECURSIVE ExtractLoop(_, _, _, _)
ExtractLoop(tar, offset, entries, fuel) ==
  IF ~(offset + BLOCK <= Len(tar)) THEN [entries |-> entries, halted |-> TRUE]
  ELSE IF fuel = 0 THEN [entries |-> entries, halted |-> FALSE]
  ELSE
    LET header == Subarray(tar, offset, offset + BLOCK)
    IN IF IsZeroBlock(header) THEN [entries |-> entries, halted |-> TRUE]
       ELSE
         LET name == StripTrailingNul(Subarray(header, 0, NAME_LEN))
             sizeStr == Trim(StripTrailingNul(Subarray(header, 124, 136)))
             size == parseInt8(sizeStr)
         IN IF size.nan THEN [entries |-> entries, halted |-> TRUE]
            ELSE
              LET off1 == offset + BLOCK
                  data == Subarray(tar, off1, off1 + size.value)
                  remainder == JsRem(size.value, BLOCK)
                  off2 == off1 + size.value
                            + (IF remainder > 0 THEN BLOCK - remainder ELSE 0)
              IN ExtractLoop(tar, off2, Append(entries, [name |-> name, data |-> data]),
                             fuel - 1)

ExtractRun(tar) == ExtractLoop(tar, 0, <<>>, (Len(tar) \div BLOCK) + 1)

extract(tar) == ExtractRun(tar).entries

\* The length of data with its padding, and the offset of entry i's data in
\* a container holding these entries.
Padded(n) == n + (IF n % BLOCK > 0 THEN BLOCK - (n % BLOCK) ELSE 0)
RECURSIVE DataOffset(_, _)
DataOffset(entries, i) ==
  IF i = 1 THEN BLOCK
  ELSE DataOffset(entries, i - 1) + Padded(Len(entries[i - 1].data)) + BLOCK

(***************************************************************************)
(* checksum.ts                                                             *)
(***************************************************************************)
\* sha256 as an ideal hash: an injective map from byte strings to strings.  The
\* two marks are no byte values, so no digest is the digest of another input.
sha256(data) == <<256>> \o data \o <<257>>

\* Collation weights of String.prototype.localeCompare (ICU root collation) on
\* ASCII: punctuation before digits before letters, letters compared without
\* case first, lower case before upper case on a tie.
PUNCT_ORDER == <<95, 45, 44, 59, 58, 33, 63, 46, 39, 34, 40, 41, 91, 93, 123, 125, 64, 42, 47,
                 92, 38, 35, 37, 96, 94, 43, 60, 61, 62, 124, 126, 36>>
PrimaryWeight(c) ==
  IF c >= 97 /\ c <= 122 THEN 1000 + (c - 97)
  ELSE IF c >= 65 /\ c <= 90 THEN 1000 + (c - 65)
  ELSE IF c >= 48 /\ c <= 57 THEN 500 + (c - 48)
  ELSE IF \E k \in 1..Len(PUNCT_ORDER) : PUNCT_ORDER[k] = c
       THEN 100 + (CHOOSE k \in 1..Len(PUNCT_ORDER) : PUNCT_ORDER[k] = c)
       ELSE c
TertiaryWeight(c) == IF c >= 65 /\ c <= 90 THEN 1 ELSE 0
Weight(c, level) == IF level = 1 THEN PrimaryWeight(c) ELSE TertiaryWeight(c)

\* Lexicographic comparison of the weights of two strings at one level: -1, 0 or 1.
RECURSIVE CompareWeights(_, _, _, _)
CompareWeights(a, b, i, level) ==
  IF i > Len(a) /\ i > Len(b) THEN 0
  ELSE IF i > Len(a) THEN 0 - 1
  ELSE IF i > Len(b) THEN 1
  ELSE IF Weight(a[i], level) < Weight(b[i], level) THEN 0 - 1
  ELSE IF Weight(a[i], level) > Weight(b[i], level) THEN 1
  ELSE CompareWeights(a, b, i + 1, level)

localeCompare(a, b) ==
  LET p == CompareWeights(a, b, 1, 1)
  IN IF p # 0 THEN p ELSE CompareWeights(a, b, 1, 3)

\* Array.prototype.sort with the comparator of soulChecksum: a stable sort.
RECURSIVE InsertByPath(_, _)
InsertByPath(sorted, f) ==
  IF sorted = <<>> THEN <<f>>
  ELSE IF localeCompare(sorted[Len(sorted)].path, f.path) <= 0 THEN Append(sorted, f)
  ELSE Append(InsertByPath(SubSeq(sorted, 1, Len(sorted) - 1), f), sorted[Len(sorted)])

\* A soulChecksum that keeps the caller's order.
SortByPathKeepingOrder(files) == files

RECURSIVE SortByPath(_)
SortByPath(files) ==
  IF files = <<>> THEN <<>>
  ELSE InsertByPath(SortByPath(SubSeq(files, 1, Len(files) - 1)), files[Len(files)])

\* A soulChecksum that joins the paths and not the digests.
RECURSIVE JoinPaths(_)
JoinPaths(files) ==
  IF files = <<>> THEN <<>> ELSE files[1].path \o JoinPaths(Tail(files))

\* sorted.map(f => f.sha256).join('')
RECURSIVE JoinDigests(_)
JoinDigests(files) ==
  IF files = <<>> THEN <<>> ELSE files[1].sha256 \o JoinDigests(Tail(files))

soulChecksum(files) == sha256(JoinDigests(SortByPath(files)))

(***************************************************************************)
(* Directories: the set of directories that exist below (and including)    *)
(* the root, <<>>, and the regular files by relative path.                 *)
(***************************************************************************)
Absent == <<0 - 1>>          \* no file at this path (no byte string holds -1)

EmptyDir(made) == [dirs |-> IF made THEN {<<>>} ELSE {}, files |-> <<>>]

FileAt(dir, p) == IF p \in DOMAIN dir.files THEN dir.files[p] ELSE Absent
IsFile(dir, p) == FileAt(dir, p) # Absent

\* Positions of the separators '/' in p.
SlashesOf(p) == {i \in 1..Len(p) : p[i] = 47}

\* path.dirname of a relative path (<<>> stands for the root itself).
Dirname(p) ==
  IF SlashesOf(p) = {} THEN <<>>
  ELSE SubSeq(p, 1, (CHOOSE i \in SlashesOf(p) : \A j \in SlashesOf(p) : j <= i) - 1)

\* The proper ancestors of p, the root included.
AncestorsOf(p) == {<<>>} \cup {SubSeq(p, 1, i - 1) : i \in SlashesOf(p)}

\* The components of a path.
Components(p) ==
  LET cuts == SlashesOf(p) \cup {0, Len(p) + 1}
  IN {SubSeq(p, i + 1, j - 1) : <<i, j>> \in
        {c \in cuts \X cuts : c[1] < c[2] /\ ~\E k \in cuts : c[1] < k /\ k < c[2]}}

\* String.prototype.split(sep): the pieces between the separators.
RECURSIVE SplitAll(_, _)
SplitAll(str, sep) ==
  IF \E i \in 1..Len(str) : str[i] = sep
  THEN LET i == CHOOSE k \in 1..Len(str) : str[k] = sep /\ \A j \in 1..(k - 1) : str[j] # sep
       IN <<SubSeq(str, 1, i - 1)>> \o SplitAll(SubSeq(str, i + 1, Len(str)), sep)
  ELSE <<str>>

\* path.join(root, p) relative to root: empty and '.' segments go, '..'
\* takes the segment before it away, and a '..' with nothing before it stays
\* and leads out of root.
RECURSIVE NormalizeSegs(_, _, _)
NormalizeSegs(segs, i, stack) ==
  IF i > Len(segs) THEN stack
  ELSE LET seg == segs[i]
       IN IF seg = <<>> \/ seg = <<46>> THEN NormalizeSegs(segs, i + 1, stack)
          ELSE IF seg = <<46, 46>> /\ stack # <<>> /\ stack[Len(stack)] # <<46, 46>>
               THEN NormalizeSegs(segs, i + 1, SubSeq(stack, 1, Len(stack) - 1))
               ELSE NormalizeSegs(segs, i + 1, Append(stack, seg))

RECURSIVE JoinSegs(_)
JoinSegs(segs) ==
  IF segs = <<>> THEN <<>>
  ELSE IF Len(segs) = 1 THEN segs[1]
  ELSE segs[1] \o SLASH \o JoinSegs(Tail(segs))

Normalize(p) == JoinSegs(NormalizeSegs(SplitAll(p, 47), 1, <<>>))

\* A location path.join gives that is not below root.
Outside(loc) == loc = <<>> \/ SplitAll(loc, 47)[1] = <<46, 46>>

\* mkdir(d, {recursive: true})
Mkdirp(dir, d) == [dir EXCEPT !.dirs = @ \cup AncestorsOf(d) \cup {d}]

\* A writeFile that appends to the file that is there.
WriteFileAppending(dir, p, data) ==
  [dir EXCEPT !.files = [q \in DOMAIN dir.files \cup {p} |->
                            IF q # p THEN dir.files[q]
                            ELSE IF p \in DOMAIN dir.files THEN dir.files[p] \o data
                            ELSE data]]

\* writeFile(join(root, p), data): creates or overwrites the file.
WriteFile(dir, p, data) ==
  [dir EXCEPT !.files = [q \in DOMAIN dir.files \cup {p} |->
                            IF q = p THEN data ELSE dir.files[q]]]

\* A directory holding exactly the given files (path -> content), as a test
\* fixture lays them out.
DirOf(files) ==
  [dirs |-> {<<>>} \cup UNION {AncestorsOf(p) : p \in DOMAIN files}, files |-> files]

(***************************************************************************)
(* soul-files.ts -- which files are part of a soul.                        *)
(***************************************************************************)
CORE_FILES ==
  <<S_SOUL_md,  \* 'SOUL.md'
    S_MEMORY_md,  \* 'MEMORY.md'
    <<65, 71, 69, 78, 84, 83, 46, 109, 100>>,  \* 'AGENTS.md'
    <<85, 83, 69, 82, 46, 109, 100>>,  \* 'USER.md'
    <<84, 79, 79, 76, 83, 46, 109, 100>>,  \* 'TOOLS.md'
    <<73, 68, 69, 78, 84, 73, 84, 89, 46, 109, 100>>,  \* 'IDENTITY.md'
    <<72, 69, 65, 82, 84, 66, 69, 65, 84, 46, 109, 100>>,  \* 'HEARTBEAT.md'
    <<83, 69, 67, 85, 82, 73, 84, 89, 46, 109, 100>>,  \* 'SECURITY.md'
    <<66, 79, 79, 84, 83, 84, 82, 65, 80, 46, 109, 100>>,  \* 'BOOTSTRAP.md'
    <<66, 85, 67, 75, 69, 84, 76, 73, 83, 84, 46, 109, 100>>  \* 'BUCKETLIST.md'
  >>
SOUL_DIRS ==
  << <<109, 101, 109, 111, 114, 121>>,  \* 'memory'
     <<115, 107, 105, 108, 108, 115>>  \* 'skills'
  >>
EXCLUDE ==
  {<<46, 103, 105, 116>>,  \* '.git'
   <<110, 111, 100, 101, 95, 109, 111, 100, 117, 108, 101, 115>>,  \* 'node_modules'
   <<100, 105, 115, 116>>,  \* 'dist'
   <<46, 101, 110, 118>>  \* '.env'
  }

HasPrefix(p, pre) == Len(p) >= Len(pre) /\ SubSeq(p, 1, Len(pre)) = pre

\* Byte-wise lexicographic order on strings.
RECURSIVE BytesLess(_, _)
BytesLess(a, b) ==
  IF b = <<>> THEN FALSE
  ELSE IF a = <<>> THEN TRUE
  ELSE IF a[1] # b[1] THEN a[1] < b[1]
  ELSE BytesLess(Tail(a), Tail(b))

\* The elements of a finite set of strings, in byte order.
RECURSIVE SeqOfPaths(_)
SeqOfPaths(S) ==
  IF S = {} THEN <<>>
  ELSE LET m == CHOOSE x \in S : \A y \in S \ {x} : BytesLess(x, y)
       IN <<m>> \o SeqOfPaths(S \ {m})

\* walkDir(join(workspacePath, d)): the regular files below d, skipping every
\* entry whose name is excluded; readdir is taken to list names in byte order.
walkDir(dir, d) ==
  SeqOfPaths({p \in DOMAIN dir.files :
                /\ IsFile(dir, p)
                /\ HasPrefix(p, d \o SLASH)
                /\ Components(SubSeq(p, Len(d) + 2, Len(p))) \cap EXCLUDE = {}})

RECURSIVE WalkDirs(_, _, _)
WalkDirs(dir, ds, i) ==
  IF i > Len(ds) THEN <<>> ELSE walkDir(dir, ds[i]) \o WalkDirs(dir, ds, i + 1)

discoverDefaults(dir) ==
  SelectSeq(CORE_FILES, LAMBDA f : IsFile(dir, f)) \o WalkDirs(dir, SOUL_DIRS, 1)

S_SOUL_MANIFEST_json ==  \* 'SOUL_MANIFEST.json'
  <<83, 79, 85, 76, 95, 77, 65, 78, 73, 70, 69, 83, 84, 46, 106, 115, 111, 110>>
EXTERNAL == <<95, 95, 101, 120, 116, 101, 114, 110, 97, 108, 95, 95>>  \* '__external__'
HOME == <<47, 104>>  \* os.homedir(): '/h'

\* expandTilde.
expandTilde(p) ==
  IF HasPrefix(p, <<126, 47>>) THEN HOME \o SLASH \o SubSeq(p, 3, Len(p))
  ELSE IF p = <<126>> THEN HOME
  ELSE p

\* A string as JSON text: length-prefixed; and read back from position pos.
EncStr(str) == <<Len(str)>> \o str
ReadStr(b, pos) == [val |-> SubSeq(b, pos + 1, pos + b[pos]), next |-> pos + 1 + b[pos]]

\* The text of a SOUL_MANIFEST.json with this include list and no exclude
\* list, as a length-prefixed rendering, and the include list read back.
RECURSIVE EncStrs(_)
EncStrs(strs) == IF strs = <<>> THEN <<>> ELSE EncStr(strs[1]) \o EncStrs(Tail(strs))
ConfigText(include) == <<Len(include)>> \o EncStrs(include)

RECURSIVE ReadStrs(_, _, _)
ReadStrs(b, pos, n) ==
  IF n = 0 THEN <<>>
  ELSE <<ReadStr(b, pos).val>> \o ReadStrs(b, ReadStr(b, pos).next, n - 1)

\* readSoulManifest: null when the file is not there or is no JSON (here: the
\* empty text); '{}' is a manifest without an include list.
readSoulManifest(dir) ==
  LET b == FileAt(dir, S_SOUL_MANIFEST_json)
  IN IF b = Absent \/ b = <<>> \/ b = <<123, 125>>
     THEN [hasInclude |-> FALSE, include |-> <<>>]
     ELSE [hasInclude |-> TRUE, include |-> ReadStrs(b, 2, b[1])]

\* What one entry of the include list adds to `found`, lines 213-239.  The
\* entries of this model are written in normal form, so join(workspacePath,
\* entry) is the entry itself; files outside the workspace are kept in the
\* directory under their absolute path.
IncludeEntry(dir, entry) ==
  LET expanded == expandTilde(entry)
      isAbsolute == HasPrefix(expanded, SLASH)
      walked == walkDir(dir, expanded)
  IN IF IsFile(dir, expanded)
     THEN <<IF isAbsolute THEN EXTERNAL \o expanded ELSE entry>>
     ELSE IF expanded \in dir.dirs
     THEN [k \in 1..Len(walked) |->
             IF isAbsolute THEN EXTERNAL \o walked[k] ELSE walked[k]]
     ELSE <<>>

RECURSIVE discoverFromManifest(_, _)
discoverFromManifest(dir, include) ==
  IF include = <<>> THEN <<>>
  ELSE IncludeEntry(dir, include[1]) \o discoverFromManifest(dir, Tail(include))

\* discoverSoulFiles: the include list of SOUL_MANIFEST.json when there is
\* one, the defaults otherwise.
discoverSoulFiles(dir) ==
  IF readSoulManifest(dir).hasInclude
  THEN discoverFromManifest(dir, readSoulManifest(dir).include)
  ELSE discoverDefaults(dir)

(***************************************************************************)
(* Platform codecs used by archive.ts.                                     *)
(***************************************************************************)
RECURSIVE ToDecimal(_)
ToDecimal(n) == IF n < 10 THEN <<48 + n>> ELSE ToDecimal(n \div 10) \o <<48 + (n % 10)>>

\* new Date().toISOString(), from the clock reading in seconds.
ISOString(now) == ToDecimal(now) \o <<90>>

\* The manifest as text: JSON.stringify, as a length-prefixed rendering of the
\* fields in declaration order, and JSON.parse, which reads it back.
EncFile(f) == EncStr(f.path) \o EncStr(f.sha256) \o <<f.size>>
RECURSIVE EncFiles(_)
EncFiles(files) == IF files = <<>> THEN <<>> ELSE EncFile(files[1]) \o EncFiles(Tail(files))

JSONStringify(m) ==
  EncStr(m.version) \o EncStr(m.agent) \o EncStr(m.source) \o EncStr(m.timestamp)
    \o <<Len(m.files)>> \o EncFiles(m.files) \o EncStr(m.checksum)

RECURSIVE ReadFiles(_, _, _, _)
ReadFiles(b, pos, n, acc) ==
  IF n = 0 THEN [val |-> acc, next |-> pos]
  ELSE LET path == ReadStr(b, pos)
           hash == ReadStr(b, path.next)
       IN ReadFiles(b, hash.next + 1, n - 1,
                    Append(acc, [path |-> path.val, sha256 |-> hash.val, size |-> b[hash.next]]))

JSONParse(b) ==
  LET version == ReadStr(b, 1)
      agent == ReadStr(b, version.next)
      source == ReadStr(b, agent.next)
      timestamp == ReadStr(b, source.next)
      files == ReadFiles(b, timestamp.next + 1, b[timestamp.next], <<>>)
      checksum == ReadStr(b, files.next)
  IN [version |-> version.val, agent |-> agent.val, source |-> source.val,
      timestamp |-> timestamp.val, files |-> files.val, checksum |-> checksum.val]

\* zlib: a gzip stream is the magic number, the payload and a length trailer;
\* gunzip fails on anything else.
GZ_MAGIC == <<31, 139>>
Gzip(data) == GZ_MAGIC \o data \o <<Len(data) % 256>>
Gunzip(z) ==
  IF /\ Len(z) >= 3
     /\ SubSeq(z, 1, 2) = GZ_MAGIC
     /\ z[Len(z)] = (Len(z) - 3) % 256
  THEN [ok |-> TRUE, data |-> SubSeq(z, 3, Len(z) - 1)]
  ELSE [ok |-> FALSE, data |-> <<>>]

(***************************************************************************)
(* archive.ts -- createSoulArchive and extractSoulArchive.                 *)
(***************************************************************************)
NoPath == <<>>
Outcome(kind, path) == [kind |-> kind, path |-> path]
OK == Outcome("ok", NoPath)
NoManifest == [version |-> <<>>, agent |-> <<>>, source |-> <<>>, timestamp |-> <<>>,
               files |-> <<>>, checksum |-> <<>>]

\* sha256File(join(workspacePath, relPath)) rejects with ENOENT: the first
\* path of the list at which the workspace has no regular file, or NoPath.
Unreadable(dir, filePaths) ==
  IF \A k \in 1..Len(filePaths) : IsFile(dir, filePaths[k]) THEN NoPath
  ELSE filePaths[CHOOSE k \in 1..Len(filePaths) :
                   /\ ~IsFile(dir, filePaths[k])
                   /\ \A j \in 1..(k - 1) : IsFile(dir, filePaths[j])]

\* The FileEntry list of lines 27-33 / server.ts lines 91-97.
FileEntries(dir, filePaths) ==
  [i \in 1..Len(filePaths) |->
     [path |-> filePaths[i],
      sha256 |-> sha256(FileAt(dir, filePaths[i])),
      size |-> Len(FileAt(dir, filePaths[i]))]]

\* A manifest whose checksum is taken before the file entries are there.
BuildManifestEarlyChecksum(dir, filePaths, agent, source, now) ==
  [version |-> <<49, 46, 48>>, agent |-> agent, source |-> source, timestamp |-> ISOString(now),
   files |-> FileEntries(dir, filePaths), checksum |-> soulChecksum(<<>>)]

\* The manifest of createSoulArchive (lines 35-42) and of handleGetManifest.
BuildManifest(dir, filePaths, agent, source, now) ==
  LET files == FileEntries(dir, filePaths)
  IN [version |-> <<49, 46, 48>>, agent |-> agent, source |-> source, timestamp |-> ISOString(now),
      files |-> files, checksum |-> soulChecksum(files)]

\* The tar entries of an archive: the manifest first, then every file.
ArchiveEntries(dir, filePaths, manifest) ==
  <<[name |-> S_manifest_json, data |-> JSONStringify(manifest)]>>
    \o [i \in 1..Len(filePaths) |-> [name |-> filePaths[i], data |-> FileAt(dir, filePaths[i])]]

\* A createSoulArchive without the check for an empty discovery.
createSoulArchiveOfNothing(dir, agent, source, now) ==
  LET filePaths == discoverSoulFiles(dir)
      manifest == BuildManifest(dir, filePaths, agent, source, now)
      tarball == pack(ArchiveEntries(dir, filePaths, manifest), now)
  IN [outcome |-> OK, manifest |-> manifest, written |-> Gzip(tarball)]

\* createSoulArchive: the outcome, the manifest returned and the bytes written
\* to outputPath (nothing is written when it throws).  The function awaits
\* between its reads: `dir` is the workspace as discovery and the digest pass
\* (lines 22-33) find it, `later` the workspace as the content pass (lines
\* 51-56) finds it.
createSoulArchiveAcross(dir, later, agent, source, now) ==
  LET filePaths == discoverSoulFiles(dir)
      manifest == BuildManifest(dir, filePaths, agent, source, now)
      tarball == pack(ArchiveEntries(later, filePaths, manifest), now)
  IN IF Len(filePaths) = 0
     THEN [outcome |-> Outcome("no_soul_files", NoPath), manifest |-> NoManifest,
           written |-> Absent]
     ELSE IF Unreadable(dir, filePaths) # NoPath
     THEN [outcome |-> Outcome("enoent", Unreadable(dir, filePaths)),
           manifest |-> NoManifest, written |-> Absent]
     ELSE [outcome |-> OK, manifest |-> manifest, written |-> Gzip(tarball)]

\* createSoulArchive of a workspace nobody else touches meanwhile.
createSoulArchive(dir, agent, source, now) ==
  createSoulArchiveAcross(dir, dir, agent, source, now)

\* entries.find(e => e.name === name): the index of the first match, or 0.
FindEntry(entries, name) ==
  IF \E i \in 1..Len(entries) : entries[i].name = name
  THEN CHOOSE i \in 1..Len(entries) :
         entries[i].name = name /\ \A j \in 1..(i - 1) : entries[j].name # name
  ELSE 0

\* The per-file loop of lines 106-115: the first failure, or OK.
RECURSIVE VerifyFiles(_, _, _)
VerifyFiles(entries, files, i) ==
  IF i > Len(files) THEN OK
  ELSE LET k == FindEntry(entries, files[i].path)
       IN IF k = 0 THEN Outcome("missing_file", files[i].path)
          ELSE IF sha256(entries[k].data) # files[i].sha256
               THEN Outcome("integrity", files[i].path)
               ELSE VerifyFiles(entries, files, i + 1)

\* Lines 86-121 of extractSoulArchive: read, decompress, decode and verify.
\* Yields the outcome and, when it is OK, the manifest and the decoded entries.
VerifyArchive(bytes) ==
  LET unz == Gunzip(bytes)
      entries == extract(unz.data)
      m == FindEntry(entries, S_manifest_json)
      manifest == JSONParse(entries[m].data)
      perFile == VerifyFiles(entries, manifest.files, 1)
      fail(o) == [outcome |-> o, manifest |-> NoManifest, entries |-> <<>>]
  IN IF ~unz.ok THEN fail(Outcome("gunzip", NoPath))
     ELSE IF m = 0 THEN fail(Outcome("no_manifest", NoPath))
     ELSE IF perFile # OK THEN fail(perFile)
     ELSE IF soulChecksum(manifest.files) # manifest.checksum
          THEN fail(Outcome("overall", NoPath))
          ELSE [outcome |-> OK, manifest |-> manifest, entries |-> entries]

\* The write phase, lines 124-137, one await-separated step at a time: step 0
\* makes the destination and writes manifest.json, step i writes file i.
WriteSteps(manifest) == Len(manifest.files)

\* The file write step i is about: join(outputPath, 'manifest.json') for
\* step 0 (line 128), join(outputPath, file.path) for file i (line 133).
WriteLoc(manifest, i) ==
  IF i = 0 THEN S_manifest_json ELSE Normalize(manifest.files[i].path)

\* mkdir or writeFile of step i throws: a file is in the way of a directory
\* (ENOTDIR, EEXIST) or a directory in the way of the file (EISDIR).
WriteFails(dir, manifest, i) ==
  LET loc == WriteLoc(manifest, i)
  IN \/ \E d \in AncestorsOf(loc) \cup {<<>>} : d # <<>> /\ IsFile(dir, d)
     \/ loc \in dir.dirs

\* An extraction that unpacks the whole container, as tar -x would.
RECURSIVE WriteEveryEntry(_, _, _)
WriteEveryEntry(dir, entries, k) ==
  IF k > Len(entries) THEN dir
  ELSE WriteEveryEntry(WriteFile(Mkdirp(dir, Dirname(Normalize(entries[k].name))),
                                 Normalize(entries[k].name), entries[k].data),
                       entries, k + 1)

WriteStepWholeContainer(dir, manifest, entries, i) ==
  IF i = 0 THEN WriteEveryEntry(Mkdirp(dir, <<>>), entries, 1) ELSE dir

\* Lines 125-128 for step 0, lines 132-135 for file i.
WriteStep(dir, manifest, entries, i) ==
  LET loc == WriteLoc(manifest, i)
      name == IF i = 0 THEN S_manifest_json ELSE manifest.files[i].path
  IN WriteFile(Mkdirp(dir, Dirname(loc)), loc, entries[FindEntry(entries, name)].data)

(***************************************************************************)
(* State.                                                                  *)
(***************************************************************************)
VARIABLES
  tarPc, tarEntries, tarBuf, tarOut,        \* a caller of pack and extract
  sumPc, sumFiles, sumOther, sumA, sumB,    \* a caller of soulChecksum
  workspace,     \* the agent's workspace directory
  archive,       \* the bytes of the .soul file on disk, or Absent
  origin,        \* where the bytes of the .soul file come from (history)
  restored,      \* the directory a restore extracts into
  cli,           \* the command running against the .soul file
  hook,          \* the server's onRestoreRequest option: "none" or "callback"
  req,           \* the requests the STP server has received, by request slot
  client         \* the STPClient and the call it is in

tarVars == <<tarPc, tarEntries, tarBuf, tarOut>>
sumVars == <<sumPc, sumFiles, sumOther, sumA, sumB>>
soulVars == <<workspace, archive, origin, restored, cli>>
srvVars == <<hook, req, client>>
vars == <<tarVars, sumVars, soulVars, srvVars>>

\* Clock readings (seconds) an operation may see.
Times == {0, 1000}

(***************************************************************************)
(* A caller of the tar codec: pack a list of entries, then extract it.     *)
(***************************************************************************)
TarNames == {S_a_md, PathOfLen(NAME_LEN), PathOfLen(NAME_LEN + 1), S_a_md \o S_NUL}
TarDatas == {<<>>, Fill(5, 66), Fill(BLOCK + 5, 67)}
TarInputs == UNION {[1..n -> [name : TarNames, data : TarDatas]] : n \in 0..MaxTarEntries}

TarIdle == tarPc = "off" /\ tarEntries = <<>> /\ tarBuf = <<>> /\ tarOut = <<>>

TarInit ==
  /\ tarPc = "input"
  /\ tarEntries \in TarInputs
  /\ tarBuf = <<>>
  /\ tarOut = <<>>

TarPack ==
  /\ tarPc = "input"
  /\ \E now \in Times : tarBuf' = pack(tarEntries, now)
  /\ tarPc' = "packed"
  /\ UNCHANGED <<tarEntries, tarOut>>

TarExtract ==
  /\ tarPc = "packed"
  /\ tarOut' = extract(tarBuf)
  /\ tarPc' = "extracted"
  /\ UNCHANGED <<tarEntries, tarBuf>>

(***************************************************************************)
(* A caller of extract alone: the bytes are a packed container that was    *)
(* cut short, got a zero block in front, or had a size field overwritten.  *)
(***************************************************************************)
BytesEntries == UNION {[1..n -> [name : {S_a_md}, data : TarDatas]] : n \in 0..MaxTarEntries}

\* Texts of a size field (header bytes 124..135): '-1000' (octal for -512),
\* 'zz', and twelve NULs.
SizeFields ==
  {<<45, 49, 48, 48, 48>> \o Zeros(7), <<122, 122>> \o Zeros(10), Zeros(12)}

\* The byte sequences extract is handed.
DamagedTars(entries) ==
  LET buf == pack(entries, 0)
  IN {buf, Zeros(BLOCK) \o buf, Zeros(BLOCK), Zeros(BLOCK * 3)}
       \cup {SubSeq(buf, 1, n) : n \in {0, 100, Len(buf) - BLOCK, Len(buf) - BLOCK * 2,
                                         Len(buf) - BLOCK * 2 - 3}
                                          \cap 0..Len(buf)}
       \cup {BufWrite(buf, f, DataOffset(entries, k) - BLOCK + 124, 12) :
               k \in 1..Len(entries), f \in SizeFields}

BytesInit ==
  /\ tarPc = "bytes"
  /\ tarEntries \in BytesEntries
  /\ tarBuf \in DamagedTars(tarEntries)
  /\ tarOut = <<>>

\* extract(tar); a run that does not come back leaves the caller waiting.
TarRead ==
  /\ tarPc = "bytes"
  /\ tarPc' = IF ExtractRun(tarBuf).halted THEN "read" ELSE "reading"
  /\ tarOut' = extract(tarBuf)
  /\ UNCHANGED <<tarEntries, tarBuf>>

(***************************************************************************)
(* A caller of soulChecksum: a file list, and the same list permuted or    *)
(* with one digest changed.                                                *)
(***************************************************************************)
SumPaths == {S_a_md, <<98, 46, 109, 100>>, <<66, 46, 109, 100>>}  \* 'a.md', 'b.md', 'B.md'
SumDigests == {<<97>>, <<98>>}
SumInputs == UNION {[1..n -> [path : SumPaths, sha256 : SumDigests]] : n \in 0..MaxSumFiles}

SumIdle == sumPc = "off" /\ sumFiles = <<>> /\ sumOther = <<>> /\ sumA = <<>> /\ sumB = <<>>

SumInit ==
  /\ sumPc = "input"
  /\ sumFiles \in SumInputs
  /\ sumOther = <<>>
  /\ sumA = <<>>
  /\ sumB = <<>>

SumPermute ==
  /\ sumPc = "input"
  /\ \E perm \in Permutations(1..Len(sumFiles)) :
       /\ sumOther' = [i \in 1..Len(sumFiles) |-> sumFiles[perm[i]]]
       /\ sumB' = soulChecksum([i \in 1..Len(sumFiles) |-> sumFiles[perm[i]]])
  /\ sumA' = soulChecksum(sumFiles)
  /\ sumPc' = "permuted"
  /\ UNCHANGED sumFiles

SumChangeDigest ==
  /\ sumPc = "input"
  /\ \E i \in 1..Len(sumFiles) : \E d \in SumDigests \ {sumFiles[i].sha256} :
       /\ sumOther' = [sumFiles EXCEPT ![i].sha256 = d]
       /\ sumB' = soulChecksum([sumFiles EXCEPT ![i].sha256 = d])
  /\ sumA' = soulChecksum(sumFiles)
  /\ sumPc' = "changed"
  /\ UNCHANGED sumFiles

(***************************************************************************)
(* The workspace, the .soul file and the commands of cli.ts run on it.     *)
(***************************************************************************)
Agent == <<82>>
Host == <<104>>

SoulPaths == {S_SOUL_md, S_memory_day_md, PathOfLen(NAME_LEN + 1)}
Contents == {Fill(n, 65 + n) : n \in 0..MaxFileLen}

\* Files every workspace of the model holds and discovery must pass over.
OtherFiles == [p \in {S_notes_txt, S_memory_git} |-> <<78>>]

Workspaces ==
  {DirOf([p \in SoulPaths \cup DOMAIN OtherFiles |->
            IF p \in SoulPaths THEN f[p] ELSE OtherFiles[p]]) :
     f \in [SoulPaths -> Contents \cup {Absent}]}

\* The destination of a restore: not there yet, or holding older files.
Destinations ==
  {EmptyDir(FALSE), DirOf([p \in {S_SOUL_md, S_notes_txt} |-> <<79, 79>>])}

NoOrigin == [kind |-> "none", paths |-> <<>>, files |-> <<>>, path |-> NoPath, made |-> OK,
             parent |-> FALSE, rest |-> <<>>]
IdleCli == [cmd |-> "none", pc |-> "idle", idx |-> 0, manifest |-> NoManifest,
            entries |-> <<>>, outcome |-> OK, before |-> EmptyDir(FALSE)]

SoulIdle ==
  /\ workspace = EmptyDir(TRUE)
  /\ archive = Absent
  /\ origin = NoOrigin
  /\ restored = EmptyDir(FALSE)
  /\ cli = IdleCli

SoulInit ==
  /\ workspace \in Workspaces
  /\ archive = Absent
  /\ origin = NoOrigin
  /\ restored \in Destinations
  /\ cli = IdleCli

\* createSoulArchive has come back: the .soul file it wrote, if any.
Landing(r) ==
  /\ archive' = r.written
  /\ origin' = [origin EXCEPT !.kind = IF r.outcome = OK THEN "created" ELSE "failed",
                              !.paths = discoverSoulFiles(workspace),
                              !.files = workspace.files, !.made = r.outcome,
                              !.parent = r.outcome = OK]

\* cli.ts backup: createSoulArchive of the workspace up to the opening of the
\* output stream.  A failed discovery throws before mkdir (lines 22-25); else
\* the parent directory is made (line 61) and createWriteStream creates the
\* output file, empty (line 64), the gzip bytes still to come.
Backup ==
  /\ cli.pc = "idle"
  /\ origin.kind = "none"
  /\ \E now \in Times :
       LET r == createSoulArchive(workspace, Agent, Host, now)
       IN IF r.outcome = OK
          THEN /\ archive' = <<>>
               /\ origin' = [kind |-> "writing", paths |-> discoverSoulFiles(workspace),
                             files |-> workspace.files, path |-> NoPath, made |-> OK,
                             parent |-> TRUE, rest |-> r.written]
               /\ cli' = [cli EXCEPT !.pc = "backup"]
          ELSE /\ archive' = archive
               /\ origin' = [origin EXCEPT !.kind = "failed", !.made = r.outcome]
               /\ cli' = cli
  /\ UNCHANGED <<workspace, restored>>

\* Workspaces with a SOUL_MANIFEST.json: its include list names a core file,
\* a directory, a file in it, a file outside the workspace by absolute path
\* ('/h/e.md') and by '~/' path, and a path that does not exist ('gone.md');
\* or the file is no JSON, or is '{}'.
IncludeEntries ==
  {S_SOUL_md, S_memory, S_memory_day_md, HOME \o <<47, 101, 46, 109, 100>>,
   <<126, 47, 101, 46, 109, 100>>, <<103, 111, 110, 101, 46, 109, 100>>}
IncludeTexts ==
  {ConfigText(l) : l \in UNION {[1..n -> IncludeEntries] : n \in 0..MaxInclude}}
    \cup {<<>>, <<123, 125>>}
IncludeWorkspaces ==
  {DirOf([p \in {S_SOUL_md, S_memory_day_md, S_notes_txt, S_SOUL_MANIFEST_json,
                 HOME \o <<47, 101, 46, 109, 100>>} |->
            IF p = S_SOUL_MANIFEST_json THEN text ELSE <<83>>]) : text \in IncludeTexts}

IncludeInit ==
  /\ workspace \in IncludeWorkspaces
  /\ archive = Absent
  /\ origin = NoOrigin
  /\ restored = EmptyDir(FALSE)
  /\ cli = IdleCli

\* The workspace after another process has rewritten one of the discovered
\* files, or none.
Edited(dir) ==
  {dir} \cup {WriteFile(dir, discoverSoulFiles(dir)[k], c) :
               k \in 1..Len(discoverSoulFiles(dir)), c \in Contents \cup {<<90>>}}

\* cli.ts backup while another process writes to the workspace: the write
\* lands after the digest pass and before the content pass.
BackupDuringEdit ==
  /\ cli.pc = "idle"
  /\ origin.kind = "none"
  /\ \E now \in Times, later \in Edited(workspace) :
       /\ workspace' = later
       /\ Landing(createSoulArchiveAcross(workspace, later, Agent, Host, now))
  /\ UNCHANGED <<restored, cli>>

\* The bytes of one write of the gzip stream into the output file: the
\* stream arrives in WriteChunks pieces.
ChunkLen(total) == (total + WriteChunks - 1) \div WriteChunks

\* gzip.pipe(out), lines 62-70: the next piece reaches the file; after the
\* last one the stream finishes and createSoulArchive returns.
BackupWrite ==
  /\ cli.pc = "backup"
  /\ LET n == Min(Len(origin.rest), ChunkLen(Len(archive) + Len(origin.rest)))
         rest == SubSeq(origin.rest, n + 1, Len(origin.rest))
     IN /\ archive' = archive \o SubSeq(origin.rest, 1, n)
        /\ origin' = [origin EXCEPT !.rest = rest,
                                    !.kind = IF rest = <<>> THEN "created" ELSE "writing"]
        /\ cli' = [cli EXCEPT !.pc = IF rest = <<>> THEN "idle" ELSE "backup"]
  /\ UNCHANGED <<workspace, restored>>

\* out.on('error', reject), lines 66-67: compression or the write fails
\* part-way and createSoulArchive rejects; the output file stays as it is.
BackupFail ==
  /\ cli.pc = "backup"
  /\ origin' = [origin EXCEPT !.kind = "failed", !.made = Outcome("write", NoPath),
                              !.rest = <<>>]
  /\ cli' = [cli EXCEPT !.pc = "idle"]
  /\ UNCHANGED <<workspace, archive, restored>>

\* The .soul file with data byte k of entry i of the container changed.
Tampered(bytes, i, k) ==
  LET tar == Gunzip(bytes).data
      pos == DataOffset(extract(tar), i) + k
  IN Gzip([tar EXCEPT ![pos] = (@ + 1) % 256])

\* Somebody changes data byte k of file entry i inside the container.
TamperByte ==
  /\ cli.pc = "idle"
  /\ origin.kind = "created"
  /\ LET tar == Gunzip(archive).data
         entries == extract(tar)
     IN \E i \in 2..Len(entries) : \E k \in 1..Len(entries[i].data) :
          /\ archive' = Tampered(archive, i, k)
          /\ origin' = [origin EXCEPT !.kind = "tampered", !.path = origin.paths[i - 1]]
  /\ UNCHANGED <<workspace, restored, cli>>

\* Somebody replaces the .soul file by a damaged one.
ForgeKinds ==
  {"garbage", "no_manifest", "missing_file", "bad_overall", "extra_entry", "traversal",
   "absolute"}

\* The entries of a container with one more file, listed in its manifest
\* with the right digest and counted in its checksum.
WithFile(entries, path, data) ==
  LET manifest == JSONParse(entries[1].data)
      files == Append(manifest.files,
                      [path |-> path, sha256 |-> sha256(data), size |-> Len(data)])
      listed == [manifest EXCEPT !.files = files, !.checksum = soulChecksum(files)]
  IN <<[name |-> S_manifest_json, data |-> JSONStringify(listed)]>>
       \o Tail(entries) \o <<[name |-> path, data |-> data]>>

Forged(bytes, how) ==
  LET entries == extract(Gunzip(bytes).data)
      manifest == JSONParse(entries[1].data)
      bad == [manifest EXCEPT !.checksum = sha256(<<>>)]
  IN CASE how = "garbage" -> <<1, 2, 3>>
       [] how = "no_manifest" -> Gzip(pack(Tail(entries), 0))
       [] how = "missing_file" -> Gzip(pack(SubSeq(entries, 1, Len(entries) - 1), 0))
       [] how = "bad_overall" ->
            Gzip(pack(<<[name |-> S_manifest_json, data |-> JSONStringify(bad)]>>
                        \o Tail(entries), 0))
       [] how = "extra_entry" ->
            Gzip(pack(Append(entries, [name |-> S_notes_txt, data |-> <<88>>]), 0))
       [] how = "traversal" ->  \* '../x'
            Gzip(pack(WithFile(entries, <<46, 46, 47, 120>>, <<88>>), 0))
       [] how = "absolute" ->  \* '/x'
            Gzip(pack(WithFile(entries, <<47, 120>>, <<88>>), 0))

Forge ==
  /\ cli.pc = "idle"
  /\ origin.kind = "created"
  /\ \E how \in ForgeKinds :
       /\ archive' = Forged(archive, how)
       /\ origin' = [origin EXCEPT !.kind = how]
  /\ UNCHANGED <<workspace, restored, cli>>

Finished(cmd, outcome) ==
  [IdleCli EXCEPT !.cmd = cmd, !.pc = "done", !.outcome = outcome, !.before = restored]

\* readFile(archivePath) and the verification of extractSoulArchive.
ReadAndVerify(bytes) ==
  IF bytes = Absent
  THEN [outcome |-> Outcome("enoent", NoPath), manifest |-> NoManifest, entries |-> <<>>]
  ELSE VerifyArchive(bytes)

\* cli.ts verify: extractSoulArchive with dryRun true.
CliVerify ==
  /\ cli.pc = "idle"
  /\ cli' = Finished("verify", ReadAndVerify(archive).outcome)
  /\ UNCHANGED <<workspace, archive, origin, restored>>

\* A restore that ignores --dry-run.
CliRestoreIgnoringDryRun ==
  /\ cli.pc = "idle"
  /\ \E dryRun \in BOOLEAN :
       LET v == ReadAndVerify(archive)
           cmd == IF dryRun THEN "restore --dry-run" ELSE "restore"
       IN cli' = IF v.outcome = OK
                 THEN [Finished(cmd, OK) EXCEPT !.pc = "full"]
                 ELSE Finished(cmd, v.outcome)
  /\ UNCHANGED <<workspace, archive, origin, restored>>

\* cli.ts restore to a local path, up to the end of its verification pass
\* (extractSoulArchive with dryRun true); with --dry-run it ends there.
CliRestore ==
  /\ cli.pc = "idle"
  /\ \E dryRun \in BOOLEAN :
       LET v == ReadAndVerify(archive)
           cmd == IF dryRun THEN "restore --dry-run" ELSE "restore"
       IN cli' = IF v.outcome = OK /\ ~dryRun
                 THEN [Finished(cmd, OK) EXCEPT !.pc = "full"]
                 ELSE Finished(cmd, v.outcome)
  /\ UNCHANGED <<workspace, archive, origin, restored>>

\* A direct call extractSoulArchive({archivePath, outputPath: restored}).
ExtractCall ==
  /\ cli.pc = "idle"
  /\ cli' = [Finished("extract", OK) EXCEPT !.pc = "full"]
  /\ UNCHANGED <<workspace, archive, origin, restored>>

\* An extractSoulArchive that makes the output directory before it verifies.
ExtractFullMkdirFirst ==
  /\ cli.pc = "full"
  /\ LET v == ReadAndVerify(archive)
     IN cli' = IF v.outcome = OK
               THEN [cli EXCEPT !.pc = "write", !.idx = 0, !.manifest = v.manifest,
                                !.entries = v.entries]
               ELSE [cli EXCEPT !.pc = "done", !.outcome = v.outcome]
  /\ restored' = Mkdirp(restored, <<>>)
  /\ UNCHANGED <<workspace, archive, origin>>

\* extractSoulArchive without dryRun, lines 86-121: it throws, or goes on to
\* the write phase with the manifest and the entries it decoded.
ExtractFull ==
  /\ cli.pc = "full"
  /\ LET v == ReadAndVerify(archive)
     IN cli' = IF v.outcome = OK
               THEN [cli EXCEPT !.pc = "write", !.idx = 0, !.manifest = v.manifest,
                                !.entries = v.entries]
               ELSE [cli EXCEPT !.pc = "done", !.outcome = v.outcome]
  /\ UNCHANGED <<workspace, archive, origin, restored>>

\* One step of the write phase, lines 124-137.
ExtractWrite ==
  /\ cli.pc = "write"
  /\ IF WriteFails(restored, cli.manifest, cli.idx)
     THEN /\ restored' = restored
          /\ cli' = [cli EXCEPT !.pc = "done", !.entries = <<>>,
                                !.outcome = Outcome("write", WriteLoc(cli.manifest, cli.idx))]
     ELSE /\ restored' = WriteStep(restored, cli.manifest, cli.entries, cli.idx)
          /\ cli' = IF cli.idx = WriteSteps(cli.manifest)
                    THEN [cli EXCEPT !.pc = "done", !.entries = <<>>]
                    ELSE [cli EXCEPT !.idx = @ + 1]
  /\ UNCHANGED <<workspace, archive, origin>>

(***************************************************************************)
(* server.ts -- the STP server.                                            *)
(***************************************************************************)
Token == <<116>>
Undefined == <<0 - 2>>        \* JavaScript's undefined, equal to no string

\* String.prototype.split(sep, limit): the first `limit` pieces.
Split(str, sep, limit) ==
  LET all == SplitAll(str, sep) IN SubSeq(all, 1, Min(Len(all), limit))

\* checkAuth; a request without the header has auth = <<>>.
checkAuth(auth, token) ==
  IF auth = <<>> THEN FALSE
  ELSE LET parts == Split(auth, 32, 2)
           scheme == parts[1]
           value == IF Len(parts) >= 2 THEN parts[2] ELSE Undefined
       IN scheme = S_Bearer /\ value = token

Reqs == 1..MaxReqs
NoReq == [pc |-> "new", method |-> "", url |-> <<>>, auth |-> <<>>, status |-> 0,
          error |-> OK, sent |-> NoManifest, tmp |-> Absent, ran |-> {}, calls |-> 0,
          answer |-> "", bodyKind |-> "", wrote |-> {}, idx |-> 0,
          manifest |-> NoManifest, entries |-> <<>>, tmpdir |-> FALSE, temps |-> 0,
          data |-> Absent]

\* json(res, status, data) and the end of the handler.
Answered(r, status) == [r EXCEPT !.pc = "done", !.status = status]

\* A catch that answers 500 without the message.
InternalErrorLosingMessage(r, err) == Answered(r, 500)

\* The catch of the request handler, lines 83-86: a 500 with the message.
InternalError(r, err) == [Answered(r, 500) EXCEPT !.error = err]

\* A cleanup that removes the temp file and leaves its directory.
RemoveTmpFileOnly(r) == [r EXCEPT !.tmp = Absent, !.entries = <<>>]

\* The finally of handleGetSoul (lines 130-132) and of handlePutSoul (lines
\* 185-187): rm(tmpDir, { recursive: true }).
RemoveTmp(r) == [r EXCEPT !.tmp = Absent, !.entries = <<>>, !.tmpdir = FALSE]

\* mkdtemp, lines 112 and 139.
MakeTmp(r) == [r EXCEPT !.tmpdir = TRUE, !.temps = @ + 1]

\* handleGetManifest.
handleGetManifest(r, now) ==
  LET filePaths == discoverSoulFiles(workspace)
  IN IF Unreadable(workspace, filePaths) # NoPath
     THEN InternalError([r EXCEPT !.ran = {"discover"}],
                        Outcome("enoent", Unreadable(workspace, filePaths)))
     ELSE [Answered(r, 200) EXCEPT !.ran = {"discover"},
                                   !.sent = BuildManifest(workspace, filePaths, Agent, Host, now)]

\* The start of handleGetSoul, line 112: the temp directory is there.
handleGetSoul(r) == [MakeTmp(r) EXCEPT !.pc = "create"]

\* The start of handlePutSoul, lines 136-143: the body is in a temp file.
handlePutSoul(r, body) == [MakeTmp(r) EXCEPT !.pc = "verify", !.tmp = body]

\* The request handler of createSTPServer, lines 57-87, up to its first await
\* inside a route handler.
Handle(r, body, now) ==
  IF r.url = S_health /\ r.method = "GET" THEN Answered(r, 200)
  ELSE IF ~checkAuth(r.auth, Token) THEN Answered(r, 401)
  ELSE IF r.url = S_soul_manifest /\ r.method = "GET" THEN handleGetManifest(r, now)
  ELSE IF r.url = S_soul /\ r.method = "GET" THEN handleGetSoul(r)
  ELSE IF r.url = S_soul /\ r.method = "PUT" THEN handlePutSoul(r, body)
  ELSE Answered(r, 404)

Urls == {S_health, S_soul_manifest, S_soul, <<47, 120>>}  \* the routes and '/x'
AuthHeaders ==
  {<<>>,
   S_Bearer \o SPACE \o Token,
   S_Bearer \o SPACE \o Token \o SPACE \o <<120>>,
   S_Bearer \o SPACE \o <<119>>,
   <<66, 97, 115, 105, 99>> \o SPACE \o Token,
   S_Bearer}

\* A request arrives; a PUT carries the bytes of the client's .soul file.
Receive(i) ==
  /\ req[i].pc = "new"
  /\ archive # Absent
  /\ \E method \in {"GET", "PUT"}, url \in Urls, auth \in AuthHeaders, now \in Times :
       req' = [req EXCEPT ![i] =
                 Handle([NoReq EXCEPT !.method = method, !.url = url, !.auth = auth,
                                      !.bodyKind = IF method = "PUT" THEN origin.kind ELSE ""],
                        archive, now)]
  /\ UNCHANGED <<hook, soulVars>>

\* handleGetSoul, lines 115-132: createSoulArchive into the temp directory,
\* the bytes read back and sent, and the temp directory removed.
GetSoul(i) ==
  /\ req[i].pc = "create"
  /\ \E now \in Times :
       LET r == [req[i] EXCEPT !.ran = {"discover", "create"}]
           made == createSoulArchive(workspace, Agent, Host, now)
       IN req' = [req EXCEPT ![i] =
                    IF made.outcome = OK
                    THEN RemoveTmp([Answered(r, 200) EXCEPT !.manifest = made.manifest,
                                                            !.data = made.written])
                    ELSE RemoveTmp(InternalError(r, made.outcome))]
  /\ UNCHANGED <<hook, soulVars>>

\* A handlePutSoul that never asks the agent.
PutVerifySkippingConsent(i) ==
  /\ req[i].pc = "verify"
  /\ LET r == [req[i] EXCEPT !.ran = @ \cup {"extract"}]
         v == ReadAndVerify(r.tmp)
     IN req' = [req EXCEPT ![i] =
                  IF v.outcome # OK THEN InternalError(RemoveTmp(r), v.outcome)
                  ELSE [r EXCEPT !.manifest = v.manifest, !.pc = "extract"]]
  /\ UNCHANGED <<hook, soulVars>>

\* handlePutSoul, lines 145-150: extractSoulArchive of the temp file, dryRun true.
PutVerify(i) ==
  /\ req[i].pc = "verify"
  /\ LET r == [req[i] EXCEPT !.ran = @ \cup {"extract"}]
         v == ReadAndVerify(r.tmp)
     IN req' = [req EXCEPT ![i] =
                  IF v.outcome # OK THEN InternalError(RemoveTmp(r), v.outcome)
                  ELSE [r EXCEPT !.manifest = v.manifest,
                                 !.pc = IF hook = "callback" THEN "consent" ELSE "extract"]]
  /\ UNCHANGED <<hook, soulVars>>

\* handlePutSoul, lines 152-166: the agent is asked; it accepts, rejects or fails.
PutConsent(i) ==
  /\ req[i].pc = "consent"
  /\ \E answer \in {"accept", "reject", "throw"} :
       LET r == [req[i] EXCEPT !.ran = @ \cup {"consent"}, !.calls = @ + 1, !.answer = answer]
       IN req' = [req EXCEPT ![i] =
                    CASE answer = "accept" -> [r EXCEPT !.pc = "extract"]
                      [] answer = "reject" -> Answered(RemoveTmp(r), 403)
                      [] answer = "throw" ->
                           InternalError(RemoveTmp(r), Outcome("callback", NoPath))]
  /\ UNCHANGED <<hook, soulVars>>

\* handlePutSoul, lines 168-172: extractSoulArchive of the temp file into the
\* workspace, up to the end of its verification.
PutExtract(i) ==
  /\ req[i].pc = "extract"
  /\ LET r == req[i]
         v == ReadAndVerify(r.tmp)
     IN req' = [req EXCEPT ![i] =
                  IF v.outcome # OK THEN InternalError(RemoveTmp(r), v.outcome)
                  ELSE [r EXCEPT !.pc = "write", !.idx = 0, !.entries = v.entries]]
  /\ UNCHANGED <<hook, soulVars>>

\* One step of the write phase into the live workspace; after the last one
\* the acceptance is sent (lines 174-184) and the temp directory removed.  A
\* step that throws leaves through finally and the handler's catch.
PutWrite(i) ==
  /\ req[i].pc = "write"
  /\ LET r == req[i]
         loc == WriteLoc(r.manifest, r.idx)
         w == [r EXCEPT !.wrote = @ \cup {loc}]
     IN IF WriteFails(workspace, r.manifest, r.idx)
        THEN /\ workspace' = workspace
             /\ req' = [req EXCEPT ![i] = InternalError(RemoveTmp(r), Outcome("write", loc))]
        ELSE /\ workspace' = WriteStep(workspace, r.manifest, r.entries, r.idx)
             /\ req' = [req EXCEPT ![i] =
                          IF r.idx = WriteSteps(r.manifest)
                          THEN [Answered(RemoveTmp(w), 200) EXCEPT !.sent = r.manifest]
                          ELSE [w EXCEPT !.idx = @ + 1]]
  /\ UNCHANGED <<hook, archive, origin, restored, cli>>

\* What a client call ends with: kind "ok", or the Error it throws with the
\* status its message carries (0 when it carries none) and the server's
\* error text, where the message is that text.
Result(kind, status, error) == [kind |-> kind, status |-> status, error |-> error]
Returned == Result("ok", 0, OK)

IdleClient == [token |-> Token, pc |-> "idle", op |-> "none", slot |-> 0, hist |-> <<>>,
               result |-> Returned, manifest |-> NoManifest, status |-> 0,
               first |-> EmptyDir(FALSE), before |-> Absent]

\* The workspace the server serves and the workspace the client's .soul file
\* was made from.
ServerWorkspaces ==
  {DirOf([p \in {S_SOUL_md, S_notes_txt} |-> <<>>]),
   DirOf([p \in {S_notes_txt, S_memory} |-> <<>>])}  \* 'memory' is a file here
ClientWorkspace == DirOf([p \in {S_SOUL_md, S_memory_day_md} |-> Fill(1, 66)])
ClientArchive == createSoulArchive(ClientWorkspace, Agent, Host, 0).written
ClientBody(kind) ==
  CASE kind = "created" -> ClientArchive
    [] kind = "tampered" -> Tampered(ClientArchive, 3, 1)
    [] OTHER -> Forged(ClientArchive, kind)

ServerInit ==
  /\ workspace \in ServerWorkspaces
  /\ \E kind \in (ForgeKinds \ {"extra_entry", "absolute"}) \cup {"created", "tampered"} :
       /\ archive = ClientBody(kind)
       /\ origin = [kind |-> kind, paths |-> discoverSoulFiles(ClientWorkspace),
                    files |-> ClientWorkspace.files,
                    path |-> IF kind = "tampered" THEN S_memory_day_md ELSE NoPath,
                    made |-> OK, parent |-> TRUE, rest |-> <<>>]
  /\ restored = EmptyDir(FALSE)
  /\ cli = IdleCli
  /\ hook \in {"none", "callback"}
  /\ req = [i \in Reqs |-> NoReq]
  /\ client = IdleClient

(***************************************************************************)
(* client.ts -- STPClient.                                                 *)
(***************************************************************************)
\* res.ok
ResOk(status) == status >= 200 /\ status <= 299

\* The error member of the JSON body the server sends with a failure status.
ErrorBody(r) ==
  CASE r.status = 401 -> Outcome("Unauthorized", NoPath)
    [] r.status = 403 -> Outcome("Soul transfer rejected by agent", NoPath)
    [] r.status = 404 -> Outcome("Not found", NoPath)
    [] OTHER -> r.error

\* manifest(), lines 42-46.
ManifestResult(r) ==
  IF ~ResOk(r.status)
  THEN [result |-> Result("Manifest request failed", r.status, OK), manifest |-> NoManifest]
  ELSE [result |-> Returned, manifest |-> r.sent]

\* A pull that returns the manifest of the download without verifying it.
PullResultUnverified(status, body) ==
  IF ~ResOk(status)
  THEN [result |-> Result("Pull failed", status, OK), manifest |-> NoManifest,
        file |-> Absent]
  ELSE LET entries == extract(Gunzip(body).data)
           m == FindEntry(entries, S_manifest_json)
       IN [result |-> Returned,
           manifest |-> IF m = 0 THEN NoManifest ELSE JSONParse(entries[m].data),
           file |-> body]

\* Lines 57-58: what extractSoulArchive returns or throws is what pull
\* returns or throws.
Verified(v, body) ==
  [result |-> IF v.outcome = OK THEN Returned ELSE Result("verify", 0, v.outcome),
   manifest |-> v.manifest, file |-> body]

\* pull(outputPath), lines 49-59: the body is written to outputPath and then
\* verified by extractSoulArchive with dryRun true.
PullResult(status, body) ==
  IF ~ResOk(status)
  THEN [result |-> Result("Pull failed", status, OK), manifest |-> NoManifest,
        file |-> Absent]
  ELSE Verified(ReadAndVerify(body), body)

\* push(archivePath), lines 70-72: result.error || `Push failed: ${res.status}`.
PushResult(r) ==
  IF ResOk(r.status) THEN [result |-> Returned, manifest |-> r.sent]
  ELSE [result |-> IF ErrorBody(r) # OK THEN Result("message", 0, ErrorBody(r))
                   ELSE Result("Push failed", r.status, OK),
        manifest |-> NoManifest]

\* The request of a call: request(), lines 24-33.
ClientRequest(op) ==
  [NoReq EXCEPT !.method = IF op = "push" THEN "PUT" ELSE "GET",
                !.url = IF op = "manifest" THEN S_soul_manifest ELSE S_soul,
                !.auth = S_Bearer \o SPACE \o client.token,
                !.bodyKind = IF op = "push" THEN "pushed" ELSE ""]

\* The client in call op, its request in slot i.
Calling(op, i) ==
  [client EXCEPT !.op = op, !.hist = Append(@, op), !.slot = i,
                 !.first = IF client.hist = <<>> THEN workspace ELSE @,
                 !.before = archive]

\* The client starts a call.  push reads archivePath first (line 63) and
\* throws when the file is not there.
ClientCall(i) ==
  /\ client.pc = "idle"
  /\ Len(client.hist) < MaxCalls
  /\ req[i].pc = "new"
  /\ \E op \in {"manifest", "pull", "push"}, now \in Times :
       IF op = "push" /\ archive = Absent
       THEN /\ client' = [Calling(op, 0) EXCEPT !.result = Result("ENOENT", 0, OK),
                                                !.manifest = NoManifest, !.status = 0]
            /\ req' = req
       ELSE /\ client' = [Calling(op, i) EXCEPT !.pc = "waiting"]
            /\ req' = [req EXCEPT ![i] = Handle(ClientRequest(op), archive, now)]
  /\ UNCHANGED <<hook, soulVars>>

\* The bodies a GET /soul can be answered with: the server's, or anything a
\* peer that is not this server puts there.
PullBodies(r) ==
  {IF r.data = Absent THEN <<>> ELSE r.data}
    \cup (IF client.op = "pull"
          THEN {ClientBody(kind) : kind \in {"garbage", "no_manifest", "tampered", "bad_overall"}}
          ELSE {})

\* The call returns or throws; a pull has left the body at outputPath.
Landed(status, got) ==
  /\ client' = [client EXCEPT !.pc = "idle", !.status = status, !.slot = 0,
                              !.result = got.result, !.manifest = got.manifest]
  /\ archive' = IF client.op = "pull" /\ got.file # Absent THEN got.file ELSE archive

\* The response arrives and the call returns or throws.
ClientReturn ==
  /\ client.pc = "waiting"
  /\ req[client.slot].pc = "done"
  /\ \E body \in PullBodies(req[client.slot]) :
       Landed(req[client.slot].status,
              CASE client.op = "manifest" -> ManifestResult(req[client.slot])
                [] client.op = "pull" -> PullResult(req[client.slot].status, body)
                [] client.op = "push" -> PushResult(req[client.slot]))
  /\ req' = [req EXCEPT ![client.slot] = NoReq]
  /\ UNCHANGED <<hook, workspace, origin, restored, cli>>

SrvIdle == hook = "none" /\ req = [i \in Reqs |-> NoReq] /\ client = IdleClient

\* A server with a workspace and a client with the right or a wrong token.
ClientInit ==
  /\ workspace \in ServerWorkspaces
                     \cup {DirOf([p \in {S_SOUL_md, PathOfLen(NAME_LEN + 1)} |-> <<76>>])}
  /\ archive = Absent
  /\ origin = NoOrigin
  /\ restored = EmptyDir(FALSE)
  /\ cli = IdleCli
  /\ hook \in {"none", "callback"}
  /\ req = [i \in Reqs |-> NoReq]
  /\ \E token \in {Token, <<119>>} : client = [IdleClient EXCEPT !.token = token]

\* Two clients push at the same time: each has backed up a workspace with
\* the same paths and its own contents.
Racers == {1, 2}
RaceFiles(i) == [p \in {S_SOUL_md, S_memory_day_md} |-> Fill(1, 64 + i)]
RaceBody(i) == createSoulArchive(DirOf(RaceFiles(i)), Agent, Host, 0).written

RaceInit ==
  /\ workspace \in ServerWorkspaces
  /\ archive = Absent
  /\ origin = NoOrigin
  /\ restored = EmptyDir(FALSE)
  /\ cli = IdleCli
  /\ hook \in {"none", "callback"}
  /\ req = [i \in Racers |-> NoReq]
  /\ client = IdleClient

\* The PUT /soul of racer i arrives.
RaceReceive(i) ==
  /\ req[i].pc = "new"
  /\ req' = [req EXCEPT ![i] =
               Handle([NoReq EXCEPT !.method = "PUT", !.url = S_soul,
                                    !.auth = S_Bearer \o SPACE \o Token,
                                    !.bodyKind = "created"],
                      RaceBody(i), 0)]
  /\ UNCHANGED <<hook, soulVars>>

(***************************************************************************)
(* Specifications.                                                         *)
(***************************************************************************)
Init == TarIdle /\ SumIdle /\ SrvIdle /\ SoulInit

Next ==
  \/ Backup /\ UNCHANGED <<tarVars, sumVars, srvVars>>
  \/ BackupWrite /\ UNCHANGED <<tarVars, sumVars, srvVars>>
  \/ BackupFail /\ UNCHANGED <<tarVars, sumVars, srvVars>>
  \/ TamperByte /\ UNCHANGED <<tarVars, sumVars, srvVars>>
  \/ Forge /\ UNCHANGED <<tarVars, sumVars, srvVars>>
  \/ CliVerify /\ UNCHANGED <<tarVars, sumVars, srvVars>>
  \/ CliRestore /\ UNCHANGED <<tarVars, sumVars, srvVars>>
  \/ ExtractCall /\ UNCHANGED <<tarVars, sumVars, srvVars>>
  \/ ExtractFull /\ UNCHANGED <<tarVars, sumVars, srvVars>>
  \/ ExtractWrite /\ UNCHANGED <<tarVars, sumVars, srvVars>>

Spec == Init /\ [][Next]_vars

TarNext ==
  \/ TarPack /\ UNCHANGED <<sumVars, soulVars, srvVars>>
  \/ TarExtract /\ UNCHANGED <<sumVars, soulVars, srvVars>>

InitTar == TarInit /\ SumIdle /\ SoulIdle /\ SrvIdle
SpecTar == InitTar /\ [][TarNext]_vars

BytesNext == TarRead /\ UNCHANGED <<sumVars, soulVars, srvVars>>

InitBytes == BytesInit /\ SumIdle /\ SoulIdle /\ SrvIdle
SpecBytes == InitBytes /\ [][BytesNext]_vars

EditNext ==
  \/ BackupDuringEdit /\ UNCHANGED <<tarVars, sumVars, srvVars>>
  \/ CliVerify /\ UNCHANGED <<tarVars, sumVars, srvVars>>

InitEdit == TarIdle /\ SumIdle /\ SrvIdle /\ SoulInit
SpecEdit == InitEdit /\ [][EditNext]_vars

IncludeNext ==
  \/ Backup /\ UNCHANGED <<tarVars, sumVars, srvVars>>
  \/ BackupWrite /\ UNCHANGED <<tarVars, sumVars, srvVars>>
  \/ CliVerify /\ UNCHANGED <<tarVars, sumVars, srvVars>>

InitInclude == TarIdle /\ SumIdle /\ SrvIdle /\ IncludeInit
SpecInclude == InitInclude /\ [][IncludeNext]_vars

SumNext ==
  \/ SumPermute /\ UNCHANGED <<tarVars, soulVars, srvVars>>
  \/ SumChangeDigest /\ UNCHANGED <<tarVars, soulVars, srvVars>>

ServerNext ==
  \/ \E i \in Reqs : Receive(i) /\ UNCHANGED <<tarVars, sumVars, client>>
  \/ \E i \in Reqs : GetSoul(i) /\ UNCHANGED <<tarVars, sumVars, client>>
  \/ \E i \in Reqs : PutVerify(i) /\ UNCHANGED <<tarVars, sumVars, client>>
  \/ \E i \in Reqs : PutConsent(i) /\ UNCHANGED <<tarVars, sumVars, client>>
  \/ \E i \in Reqs : PutExtract(i) /\ UNCHANGED <<tarVars, sumVars, client>>
  \/ \E i \in Reqs : PutWrite(i) /\ UNCHANGED <<tarVars, sumVars, client>>

RaceNext ==
  \/ \E i \in Racers : RaceReceive(i) /\ UNCHANGED <<tarVars, sumVars, client>>
  \/ \E i \in Racers : PutVerify(i) /\ UNCHANGED <<tarVars, sumVars, client>>
  \/ \E i \in Racers : PutConsent(i) /\ UNCHANGED <<tarVars, sumVars, client>>
  \/ \E i \in Racers : PutExtract(i) /\ UNCHANGED <<tarVars, sumVars, client>>
  \/ \E i \in Racers : PutWrite(i) /\ UNCHANGED <<tarVars, sumVars, client>>

InitRace == TarIdle /\ SumIdle /\ RaceInit
SpecRace == InitRace /\ [][RaceNext]_vars

ClientNext ==
  \/ \E i \in Reqs : ClientCall(i) /\ UNCHANGED <<tarVars, sumVars>>
  \/ ClientReturn /\ UNCHANGED <<tarVars, sumVars>>
  \/ \E i \in Reqs : GetSoul(i) /\ UNCHANGED <<tarVars, sumVars, client>>
  \/ \E i \in Reqs : PutVerify(i) /\ UNCHANGED <<tarVars, sumVars, client>>
  \/ \E i \in Reqs : PutConsent(i) /\ UNCHANGED <<tarVars, sumVars, client>>
  \/ \E i \in Reqs : PutExtract(i) /\ UNCHANGED <<tarVars, sumVars, client>>
  \/ \E i \in Reqs : PutWrite(i) /\ UNCHANGED <<tarVars, sumVars, client>>

InitClient == TarIdle /\ SumIdle /\ ClientInit
SpecClient == InitClient /\ [][ClientNext]_vars

InitServer == TarIdle /\ SumIdle /\ ServerInit
SpecServer == InitServer /\ [][ServerNext]_vars

InitSum == SumInit /\ TarIdle /\ SoulIdle /\ SrvIdle
SpecSum == InitSum /\ [][SumNext]_vars

(***************************************************************************)
(* Claims about the archive codec and the commands.                        *)
(***************************************************************************)
WritingCmds == {"restore", "extract"}
DryCmds == {"verify", "restore --dry-run"}
VerificationFailures == {"no_manifest", "missing_file", "integrity", "overall"}

\* The destination holds, at every path the backup discovered, the bytes the
\* workspace file had.
RestoredAsBackedUp ==
  \A i \in 1..Len(origin.paths) : FileAt(restored, origin.paths[i]) = origin.files[origin.paths[i]]

\* C1: createSoulArchive of any workspace with a discovered file, followed by
\* extractSoulArchive (dryRun false) of the archive it wrote, succeeds and
\* leaves at every discovered path the bytes of the workspace file.
C1_CreateExtractRoundTrip ==
  (origin.kind = "created" /\ cli.cmd \in WritingCmds /\ cli.pc = "done")
    => (cli.outcome = OK /\ RestoredAsBackedUp)

\* C2: when extractSoulArchive fails on a missing manifest, a missing file, a
\* digest mismatch or an aggregate mismatch, the destination is as it was
\* before the call, with dryRun false as with dryRun true.
C2_FailedExtractWritesNothing ==
  (cli.outcome.kind \in VerificationFailures) => (cli.pc = "done" /\ restored = cli.before)

C2_Witness ==
  /\ cli.cmd = "extract"
  /\ cli.pc = "done"
  /\ cli.outcome.kind = "integrity"
  /\ restored = cli.before

\* C3: after one data byte of one file entry of a created archive is changed,
\* extractSoulArchive fails with the integrity error that names that file.
C3_TamperNamesTheFile ==
  (origin.kind = "tampered" /\ cli.pc = "done")
    => cli.outcome = Outcome("integrity", origin.path)

\* C10: a dry run (extractSoulArchive with dryRun true, cli verify, cli
\* restore --dry-run) leaves the destination as it was, whether it returns
\* the manifest or fails.
C10_DryRunWritesNothing ==
  (cli.cmd \in DryCmds) => (cli.pc = "done" /\ restored = cli.before)

C10_Witness ==
  /\ cli.cmd = "restore --dry-run"
  /\ cli.pc = "done"
  /\ cli.outcome = OK
  /\ origin.kind = "created"
  /\ restored = cli.before

(***************************************************************************)
(* Claims about the tar codec.                                             *)
(***************************************************************************)
SameEntries(out, in) ==
  /\ Len(out) = Len(in)
  /\ \A i \in 1..Len(in) : out[i].name = in[i].name /\ out[i].data = in[i].data

\* A name the header stores whole: at most 100 bytes, none of them a trailing NUL.
FitsNameField(name) == Len(name) <= NAME_LEN /\ StripTrailingNul(name) = name

\* C7 as stated: for every sequence of entries, extract(pack(entries)) has the
\* same length, names and data as the input.
C7_RoundTripAnyName ==
  (tarPc = "extracted") => SameEntries(tarOut, tarEntries)

\* C7, amended: for every sequence of entries whose names are at most 100
\* bytes long and do not end in NUL, extract(pack(entries)) has the same
\* length, names and data as the input, empty data and data that is no
\* multiple of 512 bytes included.
C7_RoundTrip ==
  (tarPc = "extracted" /\ \A i \in 1..Len(tarEntries) : FitsNameField(tarEntries[i].name))
    => SameEntries(tarOut, tarEntries)

C7_Witness ==
  /\ tarPc = "extracted"
  /\ Len(tarEntries) = 2
  /\ Len(tarEntries[1].data) = BLOCK + 5
  /\ tarEntries[2].data = <<>>
  /\ Len(tarEntries[1].name) = NAME_LEN
  /\ SameEntries(tarOut, tarEntries)

(***************************************************************************)
(* Claims about soulChecksum.                                              *)
(***************************************************************************)
DistinctPaths(files) ==
  \A i, j \in 1..Len(files) : i # j => localeCompare(files[i].path, files[j].path) # 0

\* C8 as stated: soulChecksum of a list equals soulChecksum of every
\* permutation of the list.
C8_AnyListOrderIndependent ==
  (sumPc = "permuted") => sumA = sumB

\* C8, amended: soulChecksum of a list in which no two paths compare equal
\* equals soulChecksum of every permutation of the list.
C8_OrderIndependent ==
  (sumPc = "permuted" /\ DistinctPaths(sumFiles)) => sumA = sumB

C8_Witness ==
  /\ sumPc = "permuted"
  /\ Len(sumFiles) = 3
  /\ DistinctPaths(sumFiles)
  /\ sumOther # sumFiles
  /\ sumFiles[1].sha256 # sumFiles[2].sha256
  /\ sumA = sumB

\* C9: changing the digest of exactly one entry, all paths and the other
\* digests kept, changes soulChecksum.
C9_DigestChangeChangesChecksum ==
  (sumPc = "changed") => sumA # sumB

C9_Witness ==
  /\ sumPc = "changed"
  /\ Len(sumFiles) = 3
  /\ \E i \in 1..3 : /\ sumOther[i].sha256 # sumFiles[i].sha256
                     /\ \A j \in (1..3) \ {i} : sumOther[j] = sumFiles[j]
  /\ sumA # sumB

(***************************************************************************)
(* Claims about the STP server.                                            *)
(***************************************************************************)
ExactHeader == S_Bearer \o SPACE \o Token
IsHealth(r) == r.url = S_health /\ r.method = "GET"
IsPutSoul(r) == r.url = S_soul /\ r.method = "PUT" /\ r.pc # "new"

\* C4 (as stated): GET /health is answered 200 whatever the Authorization
\* header is; every other request gets past the gate, and so runs discovery,
\* create, extract or the consent callback, if and only if its Authorization
\* header is exactly "Bearer " followed by the token; otherwise it is
\* answered 401 with the workspace and the temp directories untouched.
C4_AuthGateExact ==
  \A i \in Reqs :
    LET r == req[i]
    IN r.pc # "new" =>
         /\ IsHealth(r) => r.status = 200 /\ r.ran = {}
         /\ ~IsHealth(r) =>
              /\ (r.auth # ExactHeader) <=> (r.pc = "done" /\ r.status = 401)
              /\ r.ran # {} => r.auth = ExactHeader
              /\ r.status = 401 => r.ran = {} /\ r.wrote = {} /\ r.tmp = Absent

\* C5: with a consent callback configured, a PUT /soul invokes it at most
\* once, only after the dry-run verification has succeeded, and always before
\* the first write to the workspace; a PUT that got past verification and
\* was answered invoked it exactly once; when it returned false the answer
\* is 403 and the request wrote nothing to the live workspace.
C5_ConsentOnceBeforeWrite ==
  hook = "callback" =>
    \A i \in Reqs :
      LET r == req[i]
      IN IsPutSoul(r) =>
           /\ r.calls <= 1
           /\ r.calls = 1 => "extract" \in r.ran /\ r.manifest # NoManifest
           /\ (r.wrote # {} \/ r.pc \in {"extract", "write"}) =>
                r.calls = 1 /\ r.answer = "accept"
           /\ (r.pc = "done" /\ r.manifest # NoManifest) => r.calls = 1
           /\ r.answer = "reject" => r.pc = "done" /\ r.status = 403 /\ r.wrote = {}

C5_Witness ==
  \E i \in Reqs :
    /\ hook = "callback"
    /\ req[i].answer = "reject"
    /\ req[i].status = 403
    /\ req[i].calls = 1

\* The error each kind of bad body must be refused with.
ExpectedError(kind) ==
  CASE kind = "garbage" -> "gunzip"
    [] kind = "no_manifest" -> "no_manifest"
    [] kind = "missing_file" -> "missing_file"
    [] kind = "tampered" -> "integrity"
    [] kind = "bad_overall" -> "overall"
    [] OTHER -> "ok"

\* C6: an authorized PUT /soul whose body is not gzip, has no manifest, lacks
\* a file, or has a digest or aggregate mismatch never invokes the consent
\* callback, writes nothing to the live workspace, and is answered 500 with
\* the message of the verification error.
C6_BadBodyRefused ==
  \A i \in Reqs :
    LET r == req[i]
    IN (IsPutSoul(r) /\ r.status # 401 /\ ExpectedError(r.bodyKind) # "ok") =>
         /\ r.calls = 0
         /\ r.wrote = {}
         /\ r.pc \in {"verify", "done"}
         /\ r.pc = "done" =>
              /\ r.status = 500
              /\ r.error.kind = ExpectedError(r.bodyKind)
              /\ r.bodyKind = "tampered" => r.error.path = origin.path

C6_Witness ==
  \E i \in Reqs :
    /\ hook = "callback"
    /\ IsPutSoul(req[i])
    /\ req[i].bodyKind = "tampered"
    /\ req[i].pc = "done"
    /\ req[i].status = 500
    /\ req[i].error = Outcome("integrity", S_memory_day_md)

(***************************************************************************)
(* Claims about createSoulArchive.                                         *)
(***************************************************************************)
\* C11: createSoulArchive of a workspace in which discovery finds no file
\* fails with the "No soul files found" error, and neither the output file
\* nor its parent directory is created.
C11_EmptyWorkspaceWritesNothing ==
  (origin.kind # "none" /\ discoverSoulFiles(workspace) = <<>>) =>
    /\ origin.kind = "failed"
    /\ origin.made = Outcome("no_soul_files", NoPath)
    /\ archive = Absent
    /\ ~origin.parent

C11_Witness ==
  /\ origin.made = Outcome("no_soul_files", NoPath)
  /\ discoverSoulFiles(workspace) = <<>>
  /\ IsFile(workspace, S_notes_txt)
  /\ archive = Absent
  /\ ~origin.parent

\* C17: while createSoulArchive writes and after it failed part-way, the
\* output path holds no file or the complete archive.
C17_OutputAbsentOrComplete ==
  (origin.kind = "writing" \/ origin.made = Outcome("write", NoPath)) =>
    (archive = Absent \/ (Gunzip(archive).ok /\ origin.rest = <<>>))

(***************************************************************************)
(* Claims about the server's temp directories and manifests.               *)
(***************************************************************************)
\* C14: when the handler of a GET /soul or PUT /soul request has finished,
\* the temp directory it made is gone, whether the request succeeded, was
\* rejected by the agent, or failed in create, verification, extraction or
\* the consent callback; and a request makes at most one temp directory.
C14_TempDirRemoved ==
  \A i \in Reqs :
    /\ req[i].temps <= 1
    /\ req[i].pc = "done" => (~req[i].tmpdir /\ req[i].tmp = Absent)
    /\ (req[i].tmpdir \/ req[i].tmp # Absent) => req[i].temps = 1

C14_Witness ==
  \E i \in Reqs :
    /\ req[i].pc = "done"
    /\ req[i].temps = 1
    /\ req[i].status = 500
    /\ req[i].answer = "throw"
    /\ ~req[i].tmpdir

\* A manifest whose checksum is soulChecksum of its files.
ManifestSound(m) == m.checksum = soulChecksum(m.files)

\* C15: the manifest createSoulArchive returns (GET /soul), the manifest
\* GET /soul/manifest answers with, and the manifest a successful
\* extractSoulArchive returns (PUT /soul) have checksum = soulChecksum(files).
C15_ManifestChecksum ==
  \A i \in Reqs :
    /\ req[i].sent # NoManifest => ManifestSound(req[i].sent)
    /\ req[i].manifest # NoManifest => ManifestSound(req[i].manifest)

C15_Witness ==
  \E i \in Reqs :
    /\ req[i].method = "PUT"
    /\ req[i].status = 200
    /\ Len(req[i].manifest.files) = 2
    /\ ManifestSound(req[i].manifest)

(***************************************************************************)
(* Claims about what extractSoulArchive writes.                            *)
(***************************************************************************)
\* The listed files of a manifest that path.join sends to location loc.
ListedAt(manifest, loc) ==
  {i \in 1..Len(manifest.files) : Normalize(manifest.files[i].path) = loc}

\* C19: after a successful extractSoulArchive with dryRun false, the
\* destination holds manifest.json with the bytes of the manifest entry, and
\* at the place of every listed path bytes with the listed digest; every
\* other location, the names of unlisted tar entries included, is as it was
\* before the call.
C19_WritesExactlyTheListedFiles ==
  (cli.cmd \in WritingCmds /\ cli.pc = "done" /\ cli.outcome = OK) =>
    LET entries == extract(Gunzip(archive).data)
    IN \A loc \in DOMAIN restored.files \cup DOMAIN cli.before.files
                    \cup {Normalize(entries[k].name) : k \in 1..Len(entries)} :
         IF ListedAt(cli.manifest, loc) # {}
         THEN \E i \in ListedAt(cli.manifest, loc) :
                sha256(FileAt(restored, loc)) = cli.manifest.files[i].sha256
         ELSE IF loc = S_manifest_json
         THEN FileAt(restored, loc) = entries[FindEntry(entries, S_manifest_json)].data
         ELSE FileAt(restored, loc) = FileAt(cli.before, loc)

C19_Witness ==
  /\ cli.cmd = "restore"
  /\ cli.pc = "done"
  /\ cli.outcome = OK
  /\ origin.kind = "extra_entry"
  /\ FileAt(cli.before, S_notes_txt) = <<79, 79>>
  /\ FileAt(restored, S_notes_txt) = <<79, 79>>
  /\ FileAt(cli.before, S_SOUL_md) # FileAt(restored, S_SOUL_md)
  /\ IsFile(restored, S_manifest_json)

\* C20: extractSoulArchive with dryRun false creates or overwrites files
\* only at locations inside the destination directory, whatever paths the
\* manifest of a verified archive lists.
C20_WritesStayInside ==
  (cli.cmd \in WritingCmds) =>
    \A loc \in DOMAIN restored.files : IsFile(restored, loc) => ~Outside(loc)

(***************************************************************************)
(* Claims about concurrent restores.                                       *)
(***************************************************************************)
\* C18: two PUT /soul requests with different valid archives, handled at the
\* same time, interleave their writes file by file: every file a request
\* wrote holds the whole content one of its writers sent, and the workspace
\* can end with one file from each archive.
C18_EachFileFromOneWriter ==
  \A loc \in {S_SOUL_md, S_memory_day_md} :
    LET writers == {i \in DOMAIN req : loc \in req[i].wrote}
    IN writers # {} => \E i \in writers : FileAt(workspace, loc) = RaceFiles(i)[loc]

C18_Witness ==
  \E i, j \in DOMAIN req :
    /\ i # j
    /\ req[i].pc = "done" /\ req[i].status = 200
    /\ req[j].pc = "done" /\ req[j].status = 200
    /\ FileAt(workspace, S_SOUL_md) = RaceFiles(i)[S_SOUL_md]
    /\ FileAt(workspace, S_memory_day_md) = RaceFiles(j)[S_memory_day_md]

(***************************************************************************)
(* Claims about the client.                                                *)
(***************************************************************************)
\* The bytes decompress and decode, hold a manifest.json, hold every file the
\* manifest lists with the digest it lists, and the manifest's checksum is the
\* aggregate of the listed digests.
PassesVerification(bytes) ==
  /\ bytes # Absent
  /\ Gunzip(bytes).ok
  /\ LET entries == extract(Gunzip(bytes).data)
         m == FindEntry(entries, S_manifest_json)
     IN /\ m # 0
        /\ \A i \in 1..Len(JSONParse(entries[m].data).files) :
             LET f == JSONParse(entries[m].data).files[i]
                 k == FindEntry(entries, f.path)
             IN k # 0 /\ sha256(entries[k].data) = f.sha256
        /\ JSONParse(entries[m].data).checksum
             = soulChecksum(JSONParse(entries[m].data).files)

\* The manifest.json inside the bytes.
ManifestIn(bytes) ==
  LET entries == extract(Gunzip(bytes).data)
  IN JSONParse(entries[FindEntry(entries, S_manifest_json)].data)

\* C12: a pull returns a manifest only when the bytes it downloaded pass the
\* full verification, and the manifest is the one inside them; on a 2xx answer
\* with any other body the pull fails.
C12_PullReturnsOnlyVerified ==
  (client.pc = "idle" /\ client.op = "pull") =>
    /\ client.result = Returned =>
         /\ ResOk(client.status)
         /\ PassesVerification(archive)
         /\ client.manifest = ManifestIn(archive)
    /\ (ResOk(client.status) /\ ~PassesVerification(archive)) =>
         client.result.kind = "verify"

\* A pull has returned the manifest of a workspace with files.
C12_Witness ==
  /\ client.pc = "idle" /\ client.op = "pull"
  /\ client.result = Returned
  /\ Len(client.manifest.files) > 0
  /\ PassesVerification(archive)

\* The soul files of a workspace with their contents, as GET /soul/manifest
\* would list them.
SoulOf(dir) == FileEntries(dir, discoverSoulFiles(dir))

\* C13: against a server without a consent callback, a pull of a workspace
\* with soul files followed at once by a push of the downloaded archive is
\* accepted, and the workspace's soul files are afterwards what they were.
C13_PullThenPushAccepted ==
  (/\ hook = "none"
   /\ client.token = Token
   /\ client.pc = "idle"
   /\ client.hist = <<"pull", "push">>
   /\ discoverSoulFiles(client.first) # <<>>
   /\ \E now \in Times : archive = createSoulArchive(client.first, Agent, Host, now).written)
    => /\ client.result = Returned
       /\ SoulOf(workspace) = SoulOf(client.first)
       /\ soulChecksum(SoulOf(workspace)) = soulChecksum(SoulOf(client.first))

\* A failure that says the caller was not authorized.
IsUnauthorized(res) ==
  \/ res.kind = "Unauthorized"
  \/ res.kind = "message" /\ res.error = Outcome("Unauthorized", NoPath)

\* C16: a call answered 401 fails with an Unauthorized failure, and a call
\* answered with any other status outside 200..299 fails with a failure that
\* carries that status.
C16_TypedFailures ==
  (client.pc = "idle" /\ client.status # 0 /\ ~ResOk(client.status)) =>
    IF client.status = 401
    THEN IsUnauthorized(client.result)
    ELSE client.result # Returned /\ client.result.status = client.status

(***************************************************************************)
(* Claims about extract on arbitrary bytes.                                *)
(***************************************************************************)
\* C21: extract comes back on every byte sequence.  ExtractRun gives the loop
\* one iteration per 512-byte block of the input and one more, which is
\* enough whenever every iteration moves the offset on by 512 bytes or more.
C21_ExtractTerminates ==
  (tarPc \in {"read", "reading"}) => ExtractRun(tarBuf).halted

\* The entries before the first header that is all zero, as the caller that
\* packed them knows them: names in order, none invented.
EntriesSoFar(out, in) ==
  /\ Len(out) <= Len(in)
  /\ \A i \in 1..Len(out) : out[i].name = in[i].name

\* C25: extract never fails.  It returns entries of the container in order
\* and nothing else, nothing at all when the input starts with a zero block
\* or is shorter than one block, and every entry when the container is whole.
C25_ExtractNeverFails ==
  (tarPc \in {"read", "reading"}) =>
    /\ tarPc = "read"
    /\ EntriesSoFar(tarOut, tarEntries)
    /\ (Len(tarBuf) < BLOCK \/ IsZeroBlock(SubSeq(tarBuf, 1, BLOCK))) => tarOut = <<>>
    /\ tarBuf = pack(tarEntries, 0) => SameEntries(tarOut, tarEntries)

(***************************************************************************)
(* Claims about createSoulArchive in a workspace that changes.             *)
(***************************************************************************)
\* C22: every archive createSoulArchive writes passes the verification of
\* extractSoulArchive, also when another process rewrites a workspace file
\* between the digest pass and the content pass.  (Paths longer than the tar
\* name field are set aside here: they fail for the reason given under C1.)
C22_WrittenArchiveVerifies ==
  (/\ origin.kind = "created"
   /\ \A i \in 1..Len(origin.paths) : FitsNameField(origin.paths[i])
   /\ cli.cmd = "verify" /\ cli.pc = "done")
    => cli.outcome = OK

(***************************************************************************)
(* Claims about the order soulChecksum sorts in.                           *)
(***************************************************************************)
\* The digests concatenated in the order of the raw bytes of their paths,
\* hashed (paths pairwise distinct).
ByteOrderChecksum(files) ==
  LET n == Len(files)
      rank(i) == Cardinality({j \in 1..n : BytesLess(files[j].path, files[i].path)}) + 1
  IN sha256(JoinDigests([k \in 1..n |-> files[CHOOSE i \in 1..n : rank(i) = k]]))

\* C23: for every list of files with distinct paths, soulChecksum is the hash
\* of the digests concatenated in byte-lexicographic order of the paths.
C23_ByteLexicographicOrder ==
  (sumPc \in {"permuted", "changed"} /\ DistinctPaths(sumFiles))
    => sumA = ByteOrderChecksum(sumFiles)

(***************************************************************************)
(* Claims about an empty discovery.                                        *)
(***************************************************************************)
\* C24: no operation that runs discovery returns a manifest without files:
\* createSoulArchive (cli backup, GET /soul) and GET /soul/manifest fail with
\* the "No soul files found" error when discovery finds nothing.
C24_NoManifestWithoutFiles ==
  \A i \in Reqs :
    (req[i].pc = "done" /\ req[i].method = "GET" /\ "discover" \in req[i].ran) =>
      IF req[i].status = 200
      THEN Len(req[i].sent.files) > 0 \/ Len(req[i].manifest.files) > 0
      ELSE req[i].error = Outcome("no_soul_files", NoPath)

(***************************************************************************)
(* Claims about the layout of the container.                               *)
(***************************************************************************)
\* The container holds manifest.json first and then, in the manifest's order,
\* one entry per listed file under the listed path with the file's bytes.
ManifestFirstThenFiles(entries, files) ==
  /\ Len(entries) >= 1
  /\ entries[1].name = S_manifest_json
  /\ LET listed == JSONParse(entries[1].data).files
     IN /\ Len(entries) = Len(listed) + 1
        /\ \A i \in 1..Len(listed) :
             /\ entries[i + 1].name = listed[i].path
             /\ entries[i + 1].data = files[listed[i].path]

\* C26: in every archive createSoulArchive has written, the first entry of
\* the container is manifest.json and entry i+1 carries the path and the
\* bytes of manifest.files[i].
C26_ManifestFirstThenFiles ==
  (origin.kind = "created") =>
    ManifestFirstThenFiles(extract(Gunzip(archive).data), origin.files)

(***************************************************************************)
(* Claims about discovery.                                                 *)
(***************************************************************************)
\* C27: in every manifest createSoulArchive produces, the paths of the file
\* entries are pairwise distinct, whatever the workspace and whatever the
\* include list of its SOUL_MANIFEST.json.
C27_ManifestPathsDistinct ==
  (origin.kind = "created") => DistinctPaths(ManifestIn(archive).files)

\* C30: every path discoverSoulFiles returns names a regular file at
\* join(workspaceRoot, path), files included by absolute or '~/' path among
\* them, so createSoulArchive of an unchanged workspace never fails reading a
\* discovered file.
C30_DiscoveredFilesExist ==
  (origin.kind # "none") =>
    /\ \A k \in 1..Len(discoverSoulFiles(workspace)) :
         IsFile(workspace, discoverSoulFiles(workspace)[k])
    /\ origin.made.kind # "enoent"

(***************************************************************************)
(* Claims about the header pack writes.                                    *)
(***************************************************************************)
\* The header block of entry i in the packed buffer.
HeaderOf(i) == SubSeq(tarBuf, DataOffset(tarEntries, i) - BLOCK + 1, DataOffset(tarEntries, i))

\* The sum of the bytes of a header outside offsets 148..155, plus eight
\* spaces for the checksum field.
RECURSIVE SumByValue(_, _, _)
SumByValue(h, at, vals) ==
  IF vals = {} THEN 0
  ELSE LET v == CHOOSE x \in vals : TRUE
       IN v * Cardinality({i \in at : h[i] = v}) + SumByValue(h, at, vals \ {v})
UnsignedSum(h) ==
  LET at == (1..148) \cup (157..BLOCK)
  IN SumByValue(h, at, {h[i] : i \in at}) + 8 * 32

\* The number written as octal digits at offsets from..to of a header.
RECURSIVE OctalAt(_, _, _)
OctalAt(h, from, to) ==
  IF to < from THEN 0 ELSE 8 * OctalAt(h, from, to - 1) + (h[to + 1] - 48)
DigitsAt(h, from, to) == \A k \in from..to : IsOctalDigit(h[k + 1])

\* C28 as stated: the checksum field holds seven octal digits, the unsigned
\* sum of the header with the field counted as spaces, and offset 155 holds a
\* space (which leaves the NUL no place).
C28_SevenDigitChecksum ==
  (tarPc \in {"packed", "extracted"}) =>
    \A i \in 1..Len(tarEntries) :
      /\ DigitsAt(HeaderOf(i), 148, 154)
      /\ OctalAt(HeaderOf(i), 148, 154) = UnsignedSum(HeaderOf(i))
      /\ HeaderOf(i)[156] = 32

\* C28, amended: in every header pack writes, offsets 148..153 hold six
\* zero-padded octal digits, the unsigned sum of all 512 header bytes with
\* offsets 148..155 counted as spaces; offset 154 holds NUL and offset 155 a
\* space.
C28_SixDigitChecksum ==
  (tarPc \in {"packed", "extracted"}) =>
    \A i \in 1..Len(tarEntries) :
      /\ DigitsAt(HeaderOf(i), 148, 153)
      /\ OctalAt(HeaderOf(i), 148, 153) = UnsignedSum(HeaderOf(i))
      /\ HeaderOf(i)[155] = 0
      /\ HeaderOf(i)[156] = 32

\* A packed buffer with two headers, the second one's name filling the name
\* field, its checksum field in the six-digit form.
C28_Witness ==
  /\ tarPc = "packed"
  /\ Len(tarEntries) = 2
  /\ Len(tarEntries[2].name) = NAME_LEN
  /\ DigitsAt(HeaderOf(2), 148, 153)
  /\ OctalAt(HeaderOf(2), 148, 153) = UnsignedSum(HeaderOf(2))
  /\ OctalAt(HeaderOf(2), 148, 153) > 8 * 32
  /\ HeaderOf(2)[155] = 0 /\ HeaderOf(2)[156] = 32

(***************************************************************************)
(* Claims about what a failed pull leaves behind.                          *)
(***************************************************************************)
\* C29: when pull fails, on a status outside 200..299 or because the bytes
\* it downloaded fail verification, the file at outputPath is what it was
\* before the call.
C29_FailedPullLeavesFile ==
  (client.pc = "idle" /\ client.op = "pull" /\ client.result # Returned)
    => archive = client.before

=============================================================================
